---- MODULE Spec2Model ----
(***************************************************************************)
(* JARVIS voice assistant: the speech segmenter (core/audio_input.py), the *)
(* session gate and turn pipeline (main.py JARVIS.process_audio), the      *)
(* intent rules (core/intent.py), the security classifier                  *)
(* (core/security.py), the tool registry (tools/registry.py) and the run   *)
(* loops (main.py run_continuous, api/server.py lifespan).                 *)
(*                                                                         *)
(* Texts are TLA+ strings; a character is a string of length one.          *)
(***************************************************************************)
EXTENDS Integers, Sequences, FiniteSets, TLC

(***************************************************************************)
(* Bounds of the model.                                                    *)
(***************************************************************************)
\* frames the device offers in one run (delivered or lost)
MaxFrames == 6
\* speech segments that are given a turn in one run
\* silence_duration, in frame periods (config: 1000 ms of 30 ms frames)
SilenceTicks == 1
\* frames taken from the pre-roll buffer at speech start (source: 10)
PreRollFrames == 2
\* capacity of the pre-roll deque (source: maxlen=100)
BufferMaxLen == 3
\* listen_once calls in one run
MaxListens == 2
\* the largest max_response_length a policy is constructed with (default: 500)
MaxResponseLength == 5
\* the largest conversation.max_history configured (default: 10)
MaxHistory == 2
\* add_message calls in one run
MaxMessages == 6
\* the largest memory.max_memories configured (default: 10000)
MaxMemories == 2

(***************************************************************************)
(* Text helpers: what str.lower, str.strip, the `in` operator, re.search   *)
(* and re.sub do on the patterns the program uses.                         *)
(***************************************************************************)
UpperChars == "ABCDEFGHIJKLMNOPQRSTUVWXYZ"
LowerChars == "abcdefghijklmnopqrstuvwxyz"
DigitChars == "0123456789"

CharAt(s, i) == SubSeq(s, i, i)

CharSet(chars) == { CharAt(chars, i) : i \in 1..Len(chars) }

UpperSet == CharSet(UpperChars)
DigitSet == CharSet(DigitChars)
\* the characters the regex class \w matches
WordSet == CharSet(LowerChars) \cup UpperSet \cup DigitSet \cup {"_"}

\* the lower-case letter of each upper-case letter
LowerOf ==
  [c \in UpperSet |->
     CharAt(LowerChars, CHOOSE i \in 1..Len(UpperChars) : CharAt(UpperChars, i) = c)]

LowerChar(c) == IF c \in UpperSet THEN LowerOf[c] ELSE c

RECURSIVE ToLower(_)
ToLower(s) ==
  IF Len(s) = 0 THEN "" ELSE LowerChar(CharAt(s, 1)) \o ToLower(SubSeq(s, 2, Len(s)))

IsSpace(c) == c = " "

RECURSIVE LStrip(_)
LStrip(s) ==
  IF Len(s) > 0 /\ IsSpace(CharAt(s, 1)) THEN LStrip(SubSeq(s, 2, Len(s))) ELSE s

RECURSIVE RStrip(_)
RStrip(s) ==
  IF Len(s) > 0 /\ IsSpace(CharAt(s, Len(s))) THEN RStrip(SubSeq(s, 1, Len(s) - 1)) ELSE s

\* mutant: nothing is stripped
Strip_Identity(s) == s

\* str.strip()
Strip(s) == RStrip(LStrip(s))

\* the literal lit occurs in s starting at position i
LitAt(s, i, lit) ==
  /\ i >= 1
  /\ i + Len(lit) - 1 <= Len(s)
  /\ SubSeq(s, i, i + Len(lit) - 1) = lit

\* Python's `lit in s`
Contains(s, lit) == \E i \in 1..(Len(s) + 1) : LitAt(s, i, lit)

ContainsAny(s, lits) == \E k \in 1..Len(lits) : Contains(s, lits[k])

\* \w of the regex engine
IsWordChar(c) == c \in WordSet

\* is position i of s a word character (positions outside s are not)
WordAt(s, i) == i >= 1 /\ i <= Len(s) /\ IsWordChar(CharAt(s, i))

\* \b between positions i-1 and i of s
BoundaryBefore(s, i) == WordAt(s, i - 1) # WordAt(s, i)

\* rf"\b{re.escape(word)}\b" with re.IGNORECASE matches s at position i;
\* low and w are s and the word in lower case
WordMatchAt(s, low, i, w) ==
  /\ LitAt(low, i, w)
  /\ BoundaryBefore(s, i)
  /\ BoundaryBefore(s, i + Len(w))

\* mutant: a substring test, without the \b anchors
WordSearch_Substring(s, word) == Contains(ToLower(s), ToLower(word))

\* re.search(rf"\b{word}\b", s, re.IGNORECASE)
WordSearch(s, word) ==
  LET low == ToLower(s)
      w == ToLower(word)
  IN \E i \in 1..Len(s) : WordMatchAt(s, low, i, w)

\* re.sub(rf"\b{word}\b", "", s, flags=re.IGNORECASE): every match, left to
\* right and non-overlapping, is removed; everything else is kept
RECURSIVE WordSubFrom(_, _, _, _)
WordSubFrom(s, low, i, w) ==
  IF i > Len(s) THEN ""
  ELSE IF WordMatchAt(s, low, i, w)
    THEN WordSubFrom(s, low, i + Len(w), w)
    ELSE CharAt(s, i) \o WordSubFrom(s, low, i + 1, w)

\* mutant: the substitution is case-sensitive (flags=re.IGNORECASE left out)
WordSub_CaseSensitive(s, word) == WordSubFrom(s, s, 1, word)

WordSub(s, word) == WordSubFrom(s, ToLower(s), 1, ToLower(word))

\* length of the first alternative of alts (in order) that matches s at
\* position i, 0 when none does: the alternation of a regex
RECURSIVE AltLenAt(_, _, _, _)
AltLenAt(s, i, alts, k) ==
  IF k > Len(alts) THEN 0
  ELSE IF LitAt(s, i, alts[k]) THEN Len(alts[k])
  ELSE AltLenAt(s, i, alts, k + 1)

\* re.sub(r"(a|b|...)", "", s): s is matched as given, low is the text the
\* alternatives are compared with (s itself, or ToLower(s) under re.IGNORECASE)
RECURSIVE AltSubFrom(_, _, _, _)
AltSubFrom(s, low, i, alts) ==
  IF i > Len(s) THEN ""
  ELSE IF AltLenAt(low, i, alts, 1) > 0
    THEN AltSubFrom(s, low, i + AltLenAt(low, i, alts, 1), alts)
    ELSE CharAt(s, i) \o AltSubFrom(s, low, i + 1, alts)

AltSub(s, alts) == AltSubFrom(s, s, 1, alts)

AltSubIgnoreCase(s, alts) == AltSubFrom(s, ToLower(s), 1, alts)

\* str.rstrip('.?!')
RECURSIVE RStripPunct(_)
RStripPunct(s) ==
  IF Len(s) > 0 /\ CharAt(s, Len(s)) \in {".", "?", "!"}
    THEN RStripPunct(SubSeq(s, 1, Len(s) - 1)) ELSE s

\* re.sub(r"^(that|to)\s+", "", s, flags=re.IGNORECASE)
StripLeadingThatTo(s) ==
  LET low == ToLower(s)
      n == IF LitAt(low, 1, "that") THEN 4 ELSE IF LitAt(low, 1, "to") THEN 2 ELSE 0
  IN IF n > 0 /\ n < Len(s) /\ IsSpace(CharAt(s, n + 1))
       THEN LStrip(SubSeq(s, n + 1, Len(s))) ELSE s

(***************************************************************************)
(* core/intent.py: the ordered rule set, parse, _extract_params and        *)
(* should_use_tool.                                                        *)
(***************************************************************************)
NoTool == "None"

\* every "a b" with a in as and b in bs: the regex (a1|a2) (b1|b2)
Pairs(as, bs) == { a \o " " \o b : a \in as, b \in bs }

AnyLit(s, lits) == \E lit \in lits : Contains(s, lit)

\* lit followed by at least one character: the regex lit(.+)
LitThenAny(s, lit) == \E i \in 1..Len(s) : LitAt(s, i, lit) /\ i + Len(lit) <= Len(s)

\* lit followed by a digit: the regex lit\d+
LitThenDigit(s, lit) ==
  \E i \in 1..Len(s) : LitAt(s, i, lit) /\ CharAt(s, i + Len(lit)) \in DigitSet

\* the regex \d+ [\+\-\*\/] \d+
Arithmetic(s) ==
  \E i \in 1..Len(s) :
    /\ i + 4 <= Len(s)
    /\ CharAt(s, i) \in DigitSet
    /\ CharAt(s, i + 1) = " "
    /\ CharAt(s, i + 2) \in {"+", "-", "*", "/"}
    /\ CharAt(s, i + 3) = " "
    /\ CharAt(s, i + 4) \in DigitSet

\* self.patterns, in declaration order: the intent and tool of rule k
IntentRules == <<
  [intent |-> "tool_call",     tool |-> "GetTimeTool"],
  [intent |-> "tool_call",     tool |-> "GetSystemInfoTool"],
  [intent |-> "tool_call",     tool |-> "CalculatorTool"],
  [intent |-> "memory_store",  tool |-> "RememberTool"],
  [intent |-> "memory_recall", tool |-> "RecallTool"],
  [intent |-> "tool_call",     tool |-> "GetMemoryStatsTool"],
  [intent |-> "tool_call",     tool |-> "TelegramAlertTool"],
  [intent |-> "tool_call",     tool |-> "OpenAppTool"],
  [intent |-> "tool_call",     tool |-> "OpenAppTool"],
  [intent |-> "tool_call",     tool |-> "PlayMusicTool"],
  [intent |-> "tool_call",     tool |-> "VolumeUpTool"],
  [intent |-> "tool_call",     tool |-> "VolumeDownTool"] >>

\* re.search(pattern k, s)
RuleMatches(k, s) ==
  CASE k = 1 -> AnyLit(s, {"what time is it", "what date is it", "what's the time",
                           "what's the date", "current time", "current date"})
    [] k = 2 -> AnyLit(s, {"system info", "system information", "system status"}
                          \cup Pairs(Pairs({"how"}, {"is", "are"}), Pairs({"the", "my"}, {"system"})))
    [] k = 3 -> \/ \E kw \in {"calculate", "compute", "what is", "how much is"} :
                     LitThenDigit(s, kw \o " ")
                \/ Arithmetic(s)
    [] k = 4 -> AnyLit(s, Pairs({"remember", "store", "save"}, {"that", "this"}))
    [] k = 5 -> AnyLit(s, {"do you remember", "recall", "what do you know about"})
    [] k = 6 -> AnyLit(s, Pairs({"memory"}, {"stats", "statistics", "status"}))
    [] k = 7 -> AnyLit(s, Pairs({"notify", "alert", "remind"}, {"me"}))
    [] k = 8 -> AnyLit(s, Pairs({"open", "launch", "show"},
                                {"settings", "system settings", "control panel",
                                 "bluetooth", "wifi", "network"}))
    [] k = 9 -> \E kw \in {"open", "launch"} : LitThenAny(s, kw \o " ")
    [] k = 10 -> LitThenAny(s, "play ")
    [] k = 11 -> AnyLit(s, {"increase volume", "volume up"})
    [] k = 12 -> AnyLit(s, {"decrease volume", "volume down"})
    [] OTHER -> FALSE

\* IntentParser._extract_params
ExtractParams(text, tool) ==
  CASE tool = "CalculatorTool" ->
         [expression |-> Strip(AltSub(ToLower(text),
            <<"calculate", "compute", "what is", "what's", "how much is">>))]
    [] tool = "RememberTool" ->
         [information |-> Strip(AltSubIgnoreCase(text,
            <<"remember that", "remember this", "store this", "store that",
              "save this", "save that">>)),
          category |-> "fact"]
    [] tool = "RecallTool" ->
         [query |-> Strip(AltSubIgnoreCase(text,
            <<"do you remember", "recall", "what do you know about">>))]
    [] tool = "GetTimeTool" ->
         [format |-> IF Contains(ToLower(text), "time") /\ ~Contains(ToLower(text), "date")
                       THEN "time"
                     ELSE IF Contains(ToLower(text), "date") /\ ~Contains(ToLower(text), "time")
                       THEN "date"
                     ELSE "full"]
    [] tool = "TelegramAlertTool" ->
         [message |-> Strip(StripLeadingThatTo(Strip(AltSubIgnoreCase(text,
            <<"notify me that", "notify me", "alert me that", "alert me",
              "remind me that", "remind me">>))))]
    [] tool = "OpenAppTool" ->
         [app |-> RStripPunct(Strip(AltSubIgnoreCase(text, <<"open", "launch", "show">>)))]
    [] tool = "PlayMusicTool" ->
         [query |-> RStripPunct(Strip(AltSubIgnoreCase(text, <<"play">>)))]
    [] OTHER -> <<>>

\* mutant: the last matching rule wins
FirstRule_LastMatch(s, k) ==
  LET hits == { j \in k..Len(IntentRules) : RuleMatches(j, s) }
  IN IF hits = {} THEN 0 ELSE CHOOSE j \in hits : \A i \in hits : i <= j

\* index of the first rule, at or after k, that matches; 0 when none does
RECURSIVE FirstRule(_, _)
FirstRule(s, k) ==
  IF k > Len(IntentRules) THEN 0
  ELSE IF RuleMatches(k, s) THEN k
  ELSE FirstRule(s, k + 1)

\* IntentParser.parse
Parse(text) ==
  LET k == FirstRule(Strip(ToLower(text)), 1)
  IN IF k > 0
       THEN [intent |-> IntentRules[k].intent, tool |-> IntentRules[k].tool,
             params |-> ExtractParams(text, IntentRules[k].tool),
             confidence |-> "0.9", original_text |-> text]
       ELSE [intent |-> "conversation", tool |-> NoTool, params |-> <<>>,
             confidence |-> "0.5", original_text |-> text]

\* IntentParser.should_use_tool
ShouldUseTool(r) ==
  r.intent \in {"tool_call", "memory_store", "memory_recall"} /\ r.tool # NoTool

(***************************************************************************)
(* core/security.py: classify_tool and validate_action under the default   *)
(* SecurityPolicy.                                                         *)
(***************************************************************************)
ForbiddenKeywords ==
  {"delete", "remove", "uninstall", "shutdown", "restart", "reboot", "logout",
   "registry", "regedit", "format", "rm -rf", "del /f", "rmdir", "kill process"}

HighRiskKeywords ==
  {"install", "download", "upload", "execute", "run script", "modify", "overwrite",
   "change settings", "admin"}

ClassifyTool(tool_name, tool_description) ==
  LET tool_lower == ToLower(tool_name)
      combined == tool_lower \o " " \o ToLower(tool_description)
  IN IF AnyLit(combined, ForbiddenKeywords) THEN "forbidden"
     ELSE IF AnyLit(combined, HighRiskKeywords) THEN "high_risk"
     ELSE IF AnyLit(tool_lower, {"system", "admin", "registry", "process"}) THEN "high_risk"
     ELSE IF AnyLit(tool_lower, {"open", "play", "volume", "workspace"}) THEN "moderate"
     ELSE IF AnyLit(tool_lower, {"get", "recall", "calculate", "time", "info", "stats"})
       THEN "safe"
     ELSE "moderate"

\* SecurityPolicy, lines 21-54: the fields validate_action and
\* validate_response_length read, at their defaults
DefaultPolicy(max_len) ==
  [allow_file_write |-> FALSE, allow_file_delete |-> FALSE, allow_file_modify |-> FALSE,
   allow_system_shutdown |-> FALSE, allow_system_restart |-> FALSE,
   allow_registry_access |-> FALSE, allow_software_install |-> FALSE,
   allow_auto_download |-> FALSE, allow_form_submission |-> FALSE,
   allow_web_login |-> FALSE, require_confirmation_for_high_risk |-> TRUE,
   max_response_length |-> max_len]

\* a SecurityPolicy constructed with every permission granted and no
\* confirmation required
PermissivePolicy(max_len) ==
  [allow_file_write |-> TRUE, allow_file_delete |-> TRUE, allow_file_modify |-> TRUE,
   allow_system_shutdown |-> TRUE, allow_system_restart |-> TRUE,
   allow_registry_access |-> TRUE, allow_software_install |-> TRUE,
   allow_auto_download |-> TRUE, allow_form_submission |-> TRUE,
   allow_web_login |-> TRUE, require_confirmation_for_high_risk |-> FALSE,
   max_response_length |-> max_len]

\* `lit in str(params).lower()`: lit has letters only, so it occurs in the
\* printed dict exactly when it occurs in a key or in a value
InParams(params, lit) ==
  \E k \in DOMAIN params : Contains(ToLower(k), lit) \/ Contains(ToLower(params[k]), lit)

\* _is_trusted_url, lines 218-250
IsTrustedUrl(url) ==
  LET url_lower == ToLower(url)
  IN IF AnyLit(url_lower, {"javascript:", "data:", "file://", "about:"}) THEN FALSE
     ELSE IF AnyLit(url_lower, {"google.com", "youtube.com", "github.com",
                                "stackoverflow.com", "wikipedia.org", "microsoft.com",
                                "apple.com"}) THEN TRUE
     ELSE LitAt(url_lower, 1, "http://") \/ LitAt(url_lower, 1, "https://")

\* _validate_specific_restrictions, lines 167-209
ValidateSpecificRestrictions(p, tool_name, params) ==
  LET tool_lower == ToLower(tool_name)
      url == IF "url" \in DOMAIN params THEN params["url"] ELSE ""
  IN IF Contains(tool_lower, "file") /\ AnyLit(tool_lower, {"delete", "remove"})
       THEN p.allow_file_delete
     ELSE IF Contains(tool_lower, "file") /\ AnyLit(tool_lower, {"write", "create"})
       THEN p.allow_file_write
     ELSE IF Contains(tool_lower, "file") /\ AnyLit(tool_lower, {"modify", "edit"})
       THEN p.allow_file_modify
     ELSE IF AnyLit(tool_lower, {"shutdown", "restart", "reboot"})
       THEN p.allow_system_shutdown \/ p.allow_system_restart
     ELSE IF Contains(tool_lower, "registry") THEN p.allow_registry_access
     ELSE IF AnyLit(tool_lower, {"install", "uninstall"}) THEN p.allow_software_install
     ELSE IF Contains(tool_lower, "download") THEN p.allow_auto_download
     ELSE IF AnyLit(tool_lower, {"login", "signin"}) THEN p.allow_web_login
     ELSE IF Contains(tool_lower, "submit") /\ InParams(params, "form")
       THEN p.allow_form_submission
     ELSE IF (InParams(params, "url") \/ InParams(params, "link"))
               /\ url # "" /\ ~IsTrustedUrl(url)
       THEN FALSE
     ELSE TRUE

\* mutant: the user's confirmation lifts the ban on forbidden tools
ValidateAction_ConfirmedLiftsBan(p, tool_name, params, user_confirmed) ==
  LET risk_level == ClassifyTool(tool_name, "")
  IN IF risk_level = "forbidden" /\ ~user_confirmed
       THEN [allowed |-> FALSE, reason |-> "forbidden"]
     ELSE IF risk_level = "high_risk" /\ p.require_confirmation_for_high_risk
               /\ ~user_confirmed
       THEN [allowed |-> FALSE, reason |-> "confirmation"]
     ELSE IF ~ValidateSpecificRestrictions(p, tool_name, params)
       THEN [allowed |-> FALSE, reason |-> "restrictions"]
     ELSE [allowed |-> TRUE, reason |-> ""]

\* validate_action, lines 125-165: the tool is classified by its name alone
ValidateAction(p, tool_name, params, user_confirmed) ==
  LET risk_level == ClassifyTool(tool_name, "")
  IN IF risk_level = "forbidden" THEN [allowed |-> FALSE, reason |-> "forbidden"]
     ELSE IF risk_level = "high_risk" /\ p.require_confirmation_for_high_risk
               /\ ~user_confirmed
       THEN [allowed |-> FALSE, reason |-> "confirmation"]
     ELSE IF ~ValidateSpecificRestrictions(p, tool_name, params)
       THEN [allowed |-> FALSE, reason |-> "restrictions"]
     ELSE [allowed |-> TRUE, reason |-> ""]

\* the Python slice s[:k]: a negative k counts from the end
SliceTo(s, k) ==
  LET stop == IF k >= 0 THEN k ELSE Len(s) + k
  IN IF stop <= 0 THEN "" ELSE IF stop >= Len(s) THEN s ELSE SubSeq(s, 1, stop)

\* validate_response_length, lines 252-268
ValidateResponseLength(p, response) ==
  IF Len(response) <= p.max_response_length
    THEN [valid |-> TRUE, text |-> response]
    ELSE [valid |-> FALSE, text |-> SliceTo(response, p.max_response_length - 3) \o "..."]

(***************************************************************************)
(* tools/registry.py and main.py initialize: the registered tools and      *)
(* ToolRegistry.execute.                                                   *)
(***************************************************************************)
VARIABLE tools       \* ToolRegistry.tools: the names registered

\* main.py initialize: the tools registered at start-up
RegisteredTools ==
  {"GetTimeTool", "GetSystemInfoTool", "CalculatorTool", "RememberTool", "RecallTool",
   "GetMemoryStatsTool"}

\* the required parameters of each registered tool (BaseTool.parameters)
RequiredParams(tool) ==
  CASE tool = "CalculatorTool" -> {"expression"}
    [] tool = "RememberTool" -> {"information"}
    [] tool = "RecallTool" -> {"query"}
    [] OTHER -> {}

\* ToolRegistry.execute: ran says whether the tool's own execute was called,
\* tool_ok is what that call reported
RegistryExecute(tool, params, tool_ok) ==
  IF tool \notin tools THEN [ran |-> FALSE, success |-> FALSE]
  ELSE IF ~(RequiredParams(tool) \subseteq DOMAIN params) THEN [ran |-> FALSE, success |-> FALSE]
  ELSE [ran |-> TRUE, success |-> tool_ok]

(***************************************************************************)
(* The running system: device, AudioInput, JARVIS, the callback thread     *)
(* that runs _audio_callback (and, through on_speech_detected, the whole   *)
(* of process_audio), and the main thread (run_continuous, or the API      *)
(* server's lifespan and websocket handler).                               *)
(***************************************************************************)
VARIABLES
  mode,              \* "continuous" (main.py run_continuous) or "api" (api/server.py)
  wake_word,         \* config.wake_word; "" stands for None
  now,               \* time.time(), in frame periods: frames offered by the device
  overflow,          \* the device's pending status flag (input overflow)
  stream_active,     \* sd.InputStream started and not yet stopped
  buffer,            \* AudioInput.buffer, the pre-roll deque
  is_listening,      \* AudioInput.is_listening
  is_speaking,       \* AudioInput.is_speaking
  last_speech_time,  \* AudioInput.last_speech_time
  speech_buffer,     \* AudioInput.speech_buffer
  stt_loaded,        \* WhisperSTT.model is not None
  tts_loaded,        \* TTSEngine.model is not None
  is_running,        \* JARVIS.is_running
  awaiting_command,  \* JARVIS.awaiting_command
  shutdown_complete, \* JARVIS._shutdown_complete
  cb_pc,             \* where the audio callback thread is
  turn,              \* the locals of the latest process_audio call (kept until the next frame)
  main_pc,           \* where the main thread is
  calls,             \* the collaborator calls of the latest turn, in order (kept until the next frame)
  warnings,          \* "Audio stream status" warnings logged by _audio_callback
  delivered,         \* history: the frames passed to _audio_callback, in order
  speech_start,      \* history: index in delivered of the frame that started speech
  segments,          \* history: segments handed to on_speech_detected
  utterances,        \* history: Idle -> Speaking transitions
  lost,              \* history: frames the device offered while the callback was busy
  lost_speech,       \* history: an active frame was lost and its burst has not ended
  utt_overlap,       \* history: the utterance began inside a burst whose start was lost
  dropped_speech,    \* history: some active frame was lost to a busy callback
  loop_set,          \* ConnectionManager.loop is not None
  active_connections, \* ConnectionManager.active_connections, a list of websockets
  sock,              \* the state of each websocket
  broadcasts,        \* the broadcast coroutines scheduled on the event loop, in order
  waiting,           \* the coroutines suspended in send_text, in the order they suspended
  published,         \* the events on_update has been called with
  received,          \* history: the events each websocket was sent, in order
  attached,          \* history: the websockets in the list when each event was published
  speech_event,      \* listen_once: the Event its callback sets
  speech_data,       \* listen_once: the audio its callback stored; <<>> stands for None
  listens,           \* listen_once calls made so far
  restart_at,        \* history: how many frames had been delivered at the latest start()
  shutdown_effects,  \* history: the effects of shutdown(), in order
  policy,            \* SecurityValidator.policy
  max_history,       \* config.conversation.max_history
  messages,          \* ConversationManager.messages
  max_memories,      \* config.memory.max_memories
  metadata,          \* SemanticMemory.metadata, one entry per vector of the index
  returned           \* what the latest call of a component returned

configVars == <<mode, wake_word>>
deviceVars == <<now, overflow, stream_active>>
audioVars == <<buffer, is_listening, is_speaking, last_speech_time, speech_buffer>>
jarvisVars == <<is_running, awaiting_command, shutdown_complete>>
modelVars == <<stt_loaded, tts_loaded>>
histVars == <<delivered, speech_start, segments, utterances, lost, lost_speech, utt_overlap,
              dropped_speech>>
bridgeVars == <<active_connections, sock, broadcasts, waiting, published, received, attached>>
listenVars == <<speech_event, speech_data, listens, restart_at>>
libVars == <<tools, policy, max_history, messages, max_memories, metadata, returned>>
vars == <<configVars, deviceVars, audioVars, jarvisVars, modelVars, cb_pc, turn, main_pc,
          calls, warnings, histVars, loop_set, bridgeVars, listenVars, libVars, shutdown_effects>>

\* frames lost to a busy callback in one run
MaxLost == 1

\* events published to the bridge in one run
MaxEvents == 2

\* the websockets that connect in one run, in the order they connect
ConsumerNames == <<"ws1", "ws2">>

Consumers == {ConsumerNames[i] : i \in 1..Len(ConsumerNames)}

\* no websocket
NoSocket == ""

Modes == {"continuous", "api"}
WakeWords == {"", "jarvis"}

\* what stt.transcribe may return as text
Transcripts ==
  {"", " ", "hey jarvis what time is it", "just talking", "Jarvis", "okay shut up",
   "my jarvises talk", "system info", "what's the time", "save this recall", "volume up"}

ExitPhrase == "shut up"

\* config.wake_word_sound_path (default None)
WakeSoundConfigured == FALSE

\* JARVIS.on_update: set by api/server.py, None otherwise
OnUpdateSet == mode = "api"

Frame(id, active) == [id |-> id, active |-> active]

NoResult == [none |-> TRUE, ran |-> FALSE, success |-> FALSE]

NoIntent == [intent |-> "conversation", tool |-> NoTool, params |-> <<>>,
             confidence |-> "0.5", original_text |-> ""]

\* audio .. response are the locals of process_audio; the other fields record
\* how the turn began: the transcript as transcribed, whether the wake-word
\* gate applied, whether the session was already shutting down, and whether
\* the utterance began inside a burst whose start was lost; failed names the
\* stage that raised, escaped says that the exception left process_audio, raw
\* is the text stt.transcribe returned
NoTurn == [audio |-> <<>>, user_text |-> "", intent_result |-> NoIntent,
           memory_context |-> "", tool_result |-> NoResult, response |-> "",
           transcript |-> "", armed |-> FALSE, shutting_down |-> FALSE,
           overlap |-> FALSE, failed |-> "", escaped |-> FALSE, raw |-> ""]

Call(op, arg, extra) == [op |-> op, arg |-> arg, extra |-> extra]

\* self.on_update(event) when a callback is registered
Events(evs) == IF OnUpdateSet THEN evs ELSE <<>>

Event(type, data) == Call("event", type, data)

\* the session has been started and is_running is false again
ShuttingDown == main_pc # "init" /\ ~is_running

\* mutant: the session always starts Armed
InitialAwaiting_Armed == FALSE

\* main.py line 74: self.awaiting_command = self.config.wake_word is None
InitialAwaiting == wake_word = ""

\* nothing has been returned yet
NoReturn == [op |-> "none"]

\* what the constructors leave: AudioInput.__init__, JARVIS.__init__ and
\* initialize, ConnectionManager.__init__, ToolRegistry with the tools of
\* initialize, ConversationManager.__init__, SemanticMemory on an empty index
Constructed ==
  /\ now = 0
  /\ overflow = FALSE
  /\ stream_active = FALSE
  /\ buffer = <<>>
  /\ is_listening = FALSE
  /\ is_speaking = FALSE
  /\ last_speech_time = 0
  /\ speech_buffer = <<>>
  /\ stt_loaded = FALSE
  /\ tts_loaded = FALSE
  /\ is_running = FALSE
  /\ awaiting_command = InitialAwaiting
  /\ shutdown_complete = FALSE
  /\ cb_pc = "idle"
  /\ turn = NoTurn
  /\ main_pc = "init"
  /\ calls = <<>>
  /\ warnings = 0
  /\ delivered = <<>>
  /\ speech_start = 0
  /\ segments = 0
  /\ utterances = 0
  /\ lost = 0
  /\ lost_speech = FALSE
  /\ utt_overlap = FALSE
  /\ dropped_speech = FALSE
  /\ loop_set = FALSE
  /\ active_connections = <<>>
  /\ sock = [c \in Consumers |-> "new"]
  /\ broadcasts = <<>>
  /\ waiting = <<>>
  /\ published = 0
  /\ received = [c \in Consumers |-> <<>>]
  /\ attached = <<>>
  /\ speech_event = FALSE
  /\ speech_data = <<>>
  /\ listens = 0
  /\ restart_at = 0
  /\ shutdown_effects = <<>>
  /\ tools = RegisteredTools
  /\ messages = <<>>
  /\ metadata = <<>>
  /\ returned = NoReturn

\* the configuration of the security, conversation and memory components
\* when nothing overrides it: the defaults, within the bounds
DefaultConfig ==
  /\ policy = DefaultPolicy(MaxResponseLength)
  /\ max_history = MaxHistory
  /\ max_memories = MaxMemories

Init ==
  /\ mode \in Modes
  /\ wake_word \in WakeWords
  /\ DefaultConfig
  /\ Constructed

(***************************************************************************)
(* core/audio_input.py                                                     *)
(***************************************************************************)
\* deque(maxlen=...).append
DequeAppend(buf, x) ==
  IF Len(buf) >= BufferMaxLen THEN SubSeq(buf, 2, Len(buf)) \o <<x>> ELSE buf \o <<x>>

\* mutant: the slice leaves out the chunk just appended, as if it were taken
\* before line 106
PreRollSlice_BeforeAppend(buf) ==
  LET old == SubSeq(buf, 1, Len(buf) - 1)
  IN IF Len(old) > PreRollFrames
       THEN SubSeq(old, Len(old) - PreRollFrames + 1, Len(old)) ELSE old

\* list(self.buffer)[-10:], taken after the current chunk was appended
PreRollSlice(buf) ==
  IF Len(buf) > PreRollFrames THEN SubSeq(buf, Len(buf) - PreRollFrames + 1, Len(buf)) ELSE buf

\* mutant: silence equal to the configured duration ends the utterance
SilenceExceeded_AtLeast(t, last) == t - last >= SilenceTicks

\* time.time() - self.last_speech_time > self.silence_duration
SilenceExceeded(t, last) == t - last > SilenceTicks

\* AudioInput.start, as called with callback=self.process_audio
StartAudio ==
  /\ is_listening' = TRUE
  /\ stream_active' = TRUE
  /\ UNCHANGED <<buffer, is_speaking, last_speech_time, speech_buffer>>

\* AudioInput._audio_callback on one frame, up to the call of
\* on_speech_detected (process_audio), which runs inside this callback
AudioCallback(active) ==
  LET t == now + 1
      chunk == Frame(t, active)
      buf == DequeAppend(buffer, chunk)
      ends == ~active /\ is_speaking /\ SilenceExceeded(t, last_speech_time)
      sbuf == IF active
                THEN IF ~is_speaking THEN PreRollSlice(buf) ELSE speech_buffer \o <<chunk>>
                ELSE IF is_speaking THEN speech_buffer \o <<chunk>> ELSE speech_buffer
  IN /\ stream_active
     /\ cb_pc = "idle"
     /\ Len(delivered) < MaxFrames
     /\ now' = t
     /\ warnings' = IF overflow THEN warnings + 1 ELSE warnings
     /\ overflow' = FALSE
     /\ buffer' = buf
     /\ delivered' = delivered \o <<chunk>>
     /\ is_speaking' = IF active THEN TRUE ELSE IF ends THEN FALSE ELSE is_speaking
     /\ last_speech_time' = IF active THEN t ELSE last_speech_time
     /\ speech_buffer' = sbuf
     /\ speech_start' = IF active /\ ~is_speaking THEN Len(delivered) + 1 ELSE speech_start
     /\ utterances' = IF active /\ ~is_speaking THEN utterances + 1 ELSE utterances
     /\ lost_speech' = (active /\ lost_speech)
     /\ utt_overlap' = IF active /\ ~is_speaking THEN lost_speech ELSE utt_overlap
     /\ IF ends /\ sbuf # <<>>
          THEN /\ segments' = segments + 1
               /\ cb_pc' = "process_audio"
               /\ turn' = [NoTurn EXCEPT !.audio = sbuf,
                                         !.overlap = utt_overlap,
                                         !.shutting_down = ShuttingDown]
          ELSE /\ turn' = NoTurn
               /\ UNCHANGED <<segments, cb_pc>>
     /\ calls' = <<>>
     /\ UNCHANGED <<configVars, stream_active, is_listening, jarvisVars, modelVars, main_pc,
                    lost, dropped_speech, loop_set, bridgeVars, listenVars, libVars, shutdown_effects>>

\* the device has a frame while the callback has not returned: the frame is
\* not passed to _audio_callback, and the device flags an input overflow
FrameLost(active) ==
  /\ stream_active
  /\ cb_pc # "idle"
  /\ lost < MaxLost
  /\ now' = now + 1
  /\ overflow' = TRUE
  /\ lost' = lost + 1
  /\ lost_speech' = active
  /\ dropped_speech' = (dropped_speech \/ active)
  /\ UNCHANGED <<configVars, stream_active, audioVars, jarvisVars, modelVars, cb_pc, turn,
                 main_pc, calls, warnings, delivered, speech_start, segments, utterances,
                 utt_overlap, loop_set, bridgeVars, listenVars, libVars, shutdown_effects>>

\* process_audio returns into _audio_callback, which clears the speech
\* buffer (line 138) and returns
ReturnToCallback ==
  /\ cb_pc' = "idle"
  /\ speech_buffer' = <<>>
  /\ UNCHANGED <<buffer, is_listening, is_speaking, last_speech_time>>

(***************************************************************************)
(* main.py JARVIS.process_audio, one action per blocking stage.  Every     *)
(* stage runs on the thread that called process_audio: the audio callback. *)
(***************************************************************************)
turnFrame == <<configVars, deviceVars, main_pc, warnings, histVars, loop_set, bridgeVars, listenVars, libVars, shutdown_effects>>

\* WhisperSTT.load_model and TTSEngine.load_model (lazy): a model that is
\* not loaded yet is loaded now, or the load raises
LoadRaises(loaded, ok) == ~loaded /\ ~ok

\* lines 141-157: status event, stt.transcribe (which returns a text, ""
\* when the inference failed, or raises when the model cannot be loaded),
\* transcription event, the empty-transcript return
Transcribe(raw, stt_ok) ==
  LET user_text == Strip(raw)
  IN /\ cb_pc = "process_audio"
     /\ IF LoadRaises(stt_loaded, stt_ok)
          THEN /\ calls' = calls \o Events(<<Event("status", "processing")>>)
                                 \o <<Call("transcribe", "", turn.audio)>>
               /\ turn' = [turn EXCEPT !.armed = (wake_word # "" /\ ~awaiting_command),
                                        !.failed = "transcribe"]
               /\ cb_pc' = "error"
               /\ UNCHANGED <<audioVars, stt_loaded>>
          ELSE /\ calls' = calls \o Events(<<Event("status", "processing")>>)
                                 \o <<Call("transcribe", "", turn.audio)>>
                                 \o Events(<<Event("transcription", user_text)>>)
               /\ turn' = [turn EXCEPT !.user_text = user_text, !.transcript = user_text,
                                        !.raw = raw,
                                        !.armed = (wake_word # "" /\ ~awaiting_command)]
               /\ stt_loaded' = TRUE
               /\ IF user_text = ""
                    THEN ReturnToCallback
                    ELSE cb_pc' = "gate" /\ UNCHANGED audioVars
     /\ UNCHANGED <<turnFrame, jarvisVars, tts_loaded>>

\* "shut up" in user_text.lower()
HasExitPhrase(user_text) == Contains(ToLower(user_text), ExitPhrase)

\* lines 159-164: the exit command; tts.speak comes first, and when it raises
\* line 163 is skipped
ExitCommand(tts_ok) ==
  /\ cb_pc = "gate"
  /\ HasExitPhrase(turn.user_text)
  /\ IF LoadRaises(tts_loaded, tts_ok)
       THEN /\ calls' = calls \o <<Call("speak_raised", "Okay, shutting down.", <<>>)>>
            /\ turn' = [turn EXCEPT !.failed = "exit"]
            /\ cb_pc' = "error"
            /\ UNCHANGED <<audioVars, is_running, tts_loaded>>
       ELSE /\ calls' = calls \o <<Call("speak", "Okay, shutting down.", <<>>)>>
            /\ tts_loaded' = TRUE
            /\ is_running' = FALSE
            /\ ReturnToCallback
            /\ UNCHANGED turn
  /\ UNCHANGED <<turnFrame, awaiting_command, shutdown_complete, stt_loaded>>

\* the wake-word gate applies: a wake word is configured and the session is
\* not yet awaiting a command (line 169)
GateApplies == wake_word # "" /\ ~awaiting_command

\* mutant: the wake word is left in the text
StripWakeWord_KeepsWord(user_text) == Strip(user_text)

\* line 180: the text that goes on after the wake word was found
StripWakeWord(user_text) == Strip(WordSub(user_text, wake_word))

\* lines 166-191: the wake-word gate, the state event and the history append
WakeGate ==
  LET found == WordSearch(turn.user_text, wake_word)
      text == IF GateApplies /\ found THEN StripWakeWord(turn.user_text) ELSE turn.user_text
      sound == IF GateApplies /\ found /\ WakeSoundConfigured
                 THEN <<Call("play_sound", "", <<>>)>> ELSE <<>>
  IN /\ cb_pc = "gate"
     /\ ~HasExitPhrase(turn.user_text)
     /\ awaiting_command' = IF GateApplies /\ found THEN TRUE ELSE awaiting_command
     /\ turn' = [turn EXCEPT !.user_text = text]
     /\ IF GateApplies /\ (~found \/ text = "")
          THEN /\ calls' = calls \o sound
               /\ ReturnToCallback
          ELSE /\ calls' = calls \o sound
                    \o Events(<<Event("state", awaiting_command')>>)
                    \o <<Call("add_message", text, "user")>>
               /\ cb_pc' = "parse"
               /\ UNCHANGED audioVars
     /\ UNCHANGED <<turnFrame, is_running, shutdown_complete, modelVars>>

\* lines 193-196: intent_parser.parse
ParseIntent ==
  /\ cb_pc = "parse"
  /\ turn' = [turn EXCEPT !.intent_result = Parse(turn.user_text)]
  /\ calls' = calls \o <<Call("parse", turn.user_text, <<>>)>>
  /\ cb_pc' = "memory"
  /\ UNCHANGED <<turnFrame, audioVars, jarvisVars, modelVars>>

\* what memory.get_context may return: no relevant memory, or a context
MemoryContexts == {"", "Relevant memories:"}

\* lines 198-200: memory.get_context, which returns a context or raises
RetrieveMemory(ctx, raises) ==
  /\ cb_pc = "memory"
  /\ calls' = calls \o <<Call("get_context", turn.user_text, <<>>)>>
  /\ IF raises
       THEN cb_pc' = "error" /\ turn' = [turn EXCEPT !.failed = "memory"]
       ELSE cb_pc' = "tool" /\ turn' = [turn EXCEPT !.memory_context = ctx]
  /\ UNCHANGED <<turnFrame, audioVars, jarvisVars, modelVars>>

\* lines 202-214: the tool call; no validation precedes tool_registry.execute
ExecuteTool(tool_ok) ==
  LET r == turn.intent_result
      res == RegistryExecute(r.tool, r.params, tool_ok)
  IN /\ cb_pc = "tool"
     /\ IF ShouldUseTool(r)
          THEN /\ turn' = [turn EXCEPT !.tool_result =
                             [none |-> FALSE, ran |-> res.ran, success |-> res.success]]
               /\ calls' = calls \o <<Call("execute", r.tool,
                             [params |-> r.params, ran |-> res.ran, success |-> res.success])>>
          ELSE UNCHANGED <<turn, calls>>
     /\ cb_pc' = "generate"
     /\ UNCHANGED <<turnFrame, audioVars, jarvisVars, modelVars>>

\* mutant: the tool result is left out of the context
BuildContext_MemoryOnly(memory_context, tool_result) ==
  IF memory_context # "" THEN <<"memory">> ELSE <<>>

\* mutant: the result of a failed tool call is put in the context too
BuildContext_AnyResult(memory_context, tool_result) ==
  (IF memory_context # "" THEN <<"memory">> ELSE <<>>)
    \o (IF ~tool_result.none THEN <<"tool_result">> ELSE <<>>)

\* lines 219-226: context_parts; <<>> stands for context=None
BuildContext(memory_context, tool_result) ==
  (IF memory_context # "" THEN <<"memory">> ELSE <<>>)
    \o (IF ~tool_result.none /\ tool_result.success THEN <<"tool_result">> ELSE <<>>)

\* what llm.generate returns: a text (its own apology string is one)
Responses == {"reply"}

\* lines 216-236: llm.generate (returns a text, or raises when the model
\* cannot be loaded) and the assistant message
Generate(response, raises) ==
  /\ cb_pc = "generate"
  /\ calls' = calls
       \o <<Call("generate", turn.user_text,
                 BuildContext(turn.memory_context, turn.tool_result))>>
       \o (IF raises THEN <<>> ELSE <<Call("add_message", response, "assistant")>>)
  /\ IF raises
       THEN cb_pc' = "error" /\ turn' = [turn EXCEPT !.failed = "generate"]
       ELSE cb_pc' = "persist" /\ turn' = [turn EXCEPT !.response = response]
  /\ UNCHANGED <<turnFrame, audioVars, jarvisVars, modelVars>>

\* lines 238-240: memory.remember_conversation, which may raise
Persist(raises) ==
  /\ cb_pc = "persist"
  /\ calls' = calls \o <<Call("remember", turn.user_text, turn.response)>>
  /\ cb_pc' = IF raises THEN "error" ELSE "speak"
  /\ turn' = IF raises THEN [turn EXCEPT !.failed = "persist"] ELSE turn
  /\ UNCHANGED <<turnFrame, audioVars, jarvisVars, modelVars>>

\* mutant: awaiting_command is reset after the exchange (what line 246 says
\* the code no longer does)
Speak_Rearms(tts_ok) ==
  /\ cb_pc = "speak"
  /\ calls' = calls \o <<Call("speak", turn.response, <<>>)>>
                    \o Events(<<Event("response", turn.response), Event("status", "idle")>>)
  /\ awaiting_command' = (wake_word = "")
  /\ tts_loaded' = TRUE
  /\ ReturnToCallback
  /\ UNCHANGED <<turnFrame, is_running, shutdown_complete, stt_loaded, turn>>

\* lines 242-255: tts.speak (blocking), the response and idle events, return
Speak(tts_ok) ==
  /\ cb_pc = "speak"
  /\ IF LoadRaises(tts_loaded, tts_ok)
       THEN /\ calls' = calls \o <<Call("speak_raised", turn.response, <<>>)>>
            /\ turn' = [turn EXCEPT !.failed = "speak"]
            /\ cb_pc' = "error"
            /\ UNCHANGED <<audioVars, tts_loaded>>
       ELSE /\ calls' = calls \o <<Call("speak", turn.response, <<>>)>>
                    \o Events(<<Event("response", turn.response), Event("status", "idle")>>)
            /\ tts_loaded' = TRUE
            /\ ReturnToCallback
            /\ UNCHANGED turn
  /\ UNCHANGED <<turnFrame, jarvisVars, stt_loaded>>

Apology == "I encountered an error processing your request."

\* lines 257-259: the except branch.  tts.speak is outside any try here: when
\* it raises too, the exception leaves process_audio and _audio_callback
\* (line 138 is not reached), and the stream may be aborted by the audio
\* library
HandleError(tts_ok, aborts) ==
  /\ cb_pc = "error"
  /\ IF LoadRaises(tts_loaded, tts_ok)
       THEN /\ calls' = calls \o <<Call("speak_raised", Apology, <<>>)>>
            /\ turn' = [turn EXCEPT !.escaped = TRUE]
            /\ cb_pc' = "idle"
            /\ stream_active' = (stream_active /\ ~aborts)
            /\ UNCHANGED <<audioVars, tts_loaded>>
       ELSE /\ calls' = calls \o <<Call("speak", Apology, <<>>)>>
            /\ tts_loaded' = TRUE
            /\ ReturnToCallback
            /\ UNCHANGED <<turn, stream_active>>
  /\ UNCHANGED <<configVars, now, overflow, main_pc, warnings, histVars, jarvisVars,
                 stt_loaded, loop_set, bridgeVars, listenVars, libVars, shutdown_effects>>

(***************************************************************************)
(* The main thread: main.py run_continuous and shutdown, and the API       *)
(* server's lifespan and websocket handler (api/server.py).                *)
(***************************************************************************)
mainFrame == <<configVars, now, overflow, buffer, is_speaking, last_speech_time,
               speech_buffer, awaiting_command, stt_loaded, cb_pc, turn, calls, warnings,
               histVars, loop_set, bridgeVars, listenVars, libVars>>

\* run_continuous lines 299-310: is_running, the welcome, audio_input.start;
\* the welcome is spoken outside the try, so when it raises the run is over
\* (main, lines 375-377)
RunContinuous(tts_ok) ==
  /\ mode = "continuous"
  /\ main_pc = "init"
  /\ is_running' = TRUE
  /\ IF LoadRaises(tts_loaded, tts_ok)
       THEN /\ main_pc' = "done"
            /\ UNCHANGED <<audioVars, stream_active, tts_loaded>>
       ELSE /\ tts_loaded' = TRUE
            /\ StartAudio
            /\ main_pc' = "loop"
  /\ UNCHANGED <<configVars, now, overflow, awaiting_command, shutdown_complete, stt_loaded,
                 cb_pc, turn, calls, warnings, histVars, loop_set, bridgeVars, listenVars, libVars, shutdown_effects>>

\* run_continuous lines 314-321: the loop sees is_running false and leaves
\* for the finally block
LoopExit ==
  /\ main_pc = "loop"
  /\ ~is_running
  /\ main_pc' = "shutdown"
  /\ UNCHANGED <<mainFrame, shutdown_effects, stream_active, is_listening, jarvisVars, tts_loaded>>

\* main() lines 356-362: SIGINT or SIGTERM; the handler calls shutdown
Signal ==
  /\ main_pc = "loop"
  /\ main_pc' = "shutdown"
  /\ UNCHANGED <<mainFrame, shutdown_effects, stream_active, is_listening, jarvisVars, tts_loaded>>

\* lifespan lines 80-86: startup of the API server
LifespanStartup ==
  /\ mode = "api"
  /\ main_pc = "init"
  /\ loop_set' = TRUE
  /\ is_running' = TRUE
  /\ StartAudio
  /\ main_pc' = "serving"
  /\ UNCHANGED <<configVars, now, overflow, awaiting_command, shutdown_complete, modelVars,
                 cb_pc, turn, calls, warnings, histVars, bridgeVars, listenVars, libVars,
                 shutdown_effects>>

\* websocket_endpoint lines 135-154: the UI's shutdown command
WsShutdown ==
  /\ main_pc = "serving"
  /\ is_running' = FALSE
  /\ main_pc' = "exiting"
  /\ UNCHANGED <<mainFrame, shutdown_effects, stream_active, is_listening, shutdown_complete, tts_loaded>>

\* lifespan lines 90-93: the server stops (the delayed SIGINT of the shutdown
\* command, or any other stop of the server) and calls jarvis.shutdown
LifespanShutdown ==
  /\ main_pc \in {"serving", "exiting"}
  /\ is_running' = FALSE
  /\ main_pc' = "shutdown"
  /\ UNCHANGED <<mainFrame, shutdown_effects, stream_active, is_listening, shutdown_complete, tts_loaded>>

\* shutdown lines 325-333 and AudioInput.stop lines 172-177: the flags are
\* cleared, then stream.stop() waits for the callback in progress
ShutdownBegin ==
  /\ main_pc = "shutdown"
  /\ IF shutdown_complete
       THEN main_pc' = "done" /\ UNCHANGED <<is_running, is_listening>>
       ELSE /\ is_running' = FALSE
            /\ is_listening' = FALSE
            /\ main_pc' = IF is_listening THEN "stopping" ELSE "saving"
  /\ UNCHANGED <<mainFrame, shutdown_effects, stream_active, shutdown_complete, tts_loaded>>

\* mutant: the stream is closed without waiting for the callback
StreamStopped_NoWait ==
  /\ main_pc = "stopping"
  /\ stream_active' = FALSE
  /\ shutdown_effects' = Append(shutdown_effects, "stop")
  /\ main_pc' = "saving"
  /\ UNCHANGED <<mainFrame, is_listening, jarvisVars, tts_loaded>>

\* AudioInput.stop lines 179-183: stream.stop() and close() return once the
\* callback in progress has returned
StreamStopped ==
  /\ main_pc = "stopping"
  /\ cb_pc = "idle"
  /\ stream_active' = FALSE
  /\ shutdown_effects' = Append(shutdown_effects, "stop")
  /\ main_pc' = "saving"
  /\ UNCHANGED <<mainFrame, is_listening, jarvisVars, tts_loaded>>

\* shutdown lines 335-347: memory.save, the stats, the goodbye; when the
\* goodbye raises, line 347 is not reached
ShutdownFinish(tts_ok) ==
  /\ main_pc = "saving"
  /\ IF LoadRaises(tts_loaded, tts_ok)
       THEN /\ shutdown_effects' = Append(shutdown_effects, "save")
            /\ UNCHANGED <<shutdown_complete, tts_loaded>>
       ELSE /\ shutdown_effects' = shutdown_effects \o <<"save", "goodbye">>
            /\ shutdown_complete' = TRUE
            /\ tts_loaded' = TRUE
  /\ main_pc' = "done"
  /\ UNCHANGED <<mainFrame, stream_active, is_listening, is_running>>

\* main() lines 356-359 while shutdown (lines 335-346) is running: the
\* handler runs on the main thread between two bytecodes of the shutdown in
\* progress, before memory.save (at = "save") or after it and before the
\* goodbye (at = "goodbye").  _shutdown_complete is still false, so the
\* nested shutdown goes through every step (audio_input.stop returns at once:
\* is_listening is already false), and sys.exit(0) then unwinds the
\* interrupted one
SignalInShutdown(at, tts_ok) ==
  /\ mode = "continuous"
  /\ main_pc = "saving"
  /\ IF LoadRaises(tts_loaded, tts_ok)
       THEN /\ shutdown_effects' =
                 shutdown_effects \o (IF at = "goodbye" THEN <<"save">> ELSE <<>>)
                                  \o <<"save">>
            /\ UNCHANGED <<shutdown_complete, tts_loaded>>
       ELSE /\ shutdown_effects' =
                 shutdown_effects \o (IF at = "goodbye" THEN <<"save">> ELSE <<>>)
                                  \o <<"save", "goodbye">>
            /\ shutdown_complete' = TRUE
            /\ tts_loaded' = TRUE
  /\ main_pc' = "done"
  /\ UNCHANGED <<mainFrame, stream_active, is_listening, is_running>>

(***************************************************************************)
(* api/server.py: the bridge from on_update to the websockets.  The        *)
(* orchestrator's thread calls jarvis_update_callback; everything else     *)
(* here runs on the server's event loop, one coroutine at a time, and a    *)
(* coroutine gives way only where it awaits.  A send_text call either      *)
(* returns without suspending, suspends while the websocket cannot take    *)
(* more data, or raises when the peer is gone; sends on one websocket      *)
(* complete in the order they were called.                                 *)
(***************************************************************************)
\* one scheduled broadcast(message) coroutine: idx is the list iterator's
\* next index, at the websocket whose send_text it is suspended in; owed is
\* history: the websockets that were in the list when the coroutine began
\* and whose peer has been there ever since
Broadcast(event) ==
  [event |-> event, idx |-> 1, at |-> NoSocket, st |-> "scheduled", owed |-> {}]

\* some coroutine is suspended in send_text on websocket c
HasWaiter(c) == \E i \in 1..Len(waiting) : broadcasts[waiting[i]].at = c

\* coroutine k is the first of those suspended on its websocket
FirstWaiter(k) ==
  \E i \in 1..Len(waiting) :
    /\ waiting[i] = k
    /\ \A j \in 1..(i - 1) : broadcasts[waiting[j]].at # broadcasts[k].at

RECURSIVE RunFrom(_, _)
\* broadcast lines 34-38 from list index i on, until the coroutine suspends
\* or the list iterator is exhausted; sent collects the websockets whose
\* send_text returned.  The iterator reads the list as it is now: the list
\* is not copied
RunFrom(i, sent) ==
  IF i > Len(active_connections)
    THEN [idx |-> i, at |-> NoSocket, st |-> "done", sent |-> sent]
    ELSE LET c == active_connections[i]
         IN IF sock[c] = "closed"
              THEN RunFrom(i + 1, sent)
              ELSE IF sock[c] = "stalled" \/ HasWaiter(c)
                     THEN [idx |-> i + 1, at |-> c, st |-> "sending", sent |-> sent]
                     ELSE RunFrom(i + 1, Append(sent, c))

\* the events sent are appended to what each websocket has received
Deliver(event, sent) ==
  [c \in Consumers |->
     IF \E i \in 1..Len(sent) : sent[i] = c THEN Append(received[c], event) ELSE received[c]]

InList(c) == \E i \in 1..Len(active_connections) : active_connections[i] = c

bridgeFrame == <<configVars, deviceVars, audioVars, jarvisVars, modelVars, cb_pc, turn,
                 main_pc, calls, warnings, histVars, loop_set,
                listenVars, libVars, shutdown_effects>>

\* mutant: the callback waits until a websocket is connected
Publish_WaitsForConsumer ==
  /\ main_pc = "serving"
  /\ published < MaxEvents
  /\ active_connections # <<>>
  /\ published' = published + 1
  /\ attached' = Append(attached, {c \in Consumers : InList(c)})
  /\ broadcasts' = Append(broadcasts, Broadcast(published + 1))
  /\ UNCHANGED <<bridgeFrame, active_connections, sock, waiting, received>>

\* jarvis_update_callback lines 44-50, called by on_update on the
\* orchestrator's thread: run_coroutine_threadsafe schedules the coroutine
\* and returns
Publish ==
  /\ main_pc = "serving"
  /\ published < MaxEvents
  /\ published' = published + 1
  /\ attached' = Append(attached, {c \in Consumers : InList(c)})
  /\ IF loop_set
       THEN broadcasts' = Append(broadcasts, Broadcast(published + 1))
       ELSE UNCHANGED broadcasts
  /\ UNCHANGED <<bridgeFrame, active_connections, sock, waiting, received>>

\* the event loop starts a scheduled coroutine; coroutines start in the
\* order they were scheduled
StartBroadcast(k) ==
  LET r == RunFrom(1, <<>>)
  IN /\ k \in 1..Len(broadcasts)
     /\ broadcasts[k].st = "scheduled"
     /\ \A j \in 1..(k - 1) : broadcasts[j].st # "scheduled"
     /\ broadcasts' = [broadcasts EXCEPT ![k] =
          [event |-> broadcasts[k].event, idx |-> r.idx, at |-> r.at, st |-> r.st,
           owed |-> {c \in Consumers : InList(c) /\ sock[c] \in {"open", "stalled"}}]]
     /\ received' = Deliver(broadcasts[k].event, r.sent)
     /\ waiting' = IF r.st = "sending" THEN Append(waiting, k) ELSE waiting
     /\ UNCHANGED <<bridgeFrame, active_connections, sock, published, attached>>

\* a suspended send_text completes (the websocket takes data again) or
\* raises (the peer is gone), and the coroutine goes on with the loop
ResumeBroadcast(k) ==
  LET b == broadcasts[k]
      ok == sock[b.at] = "open"
      rest == SelectSeq(waiting, LAMBDA j : j # k)
      r == RunFrom(b.idx, IF ok THEN <<b.at>> ELSE <<>>)
  IN /\ k \in 1..Len(broadcasts)
     /\ b.st = "sending"
     /\ sock[b.at] # "stalled"
     /\ FirstWaiter(k)
     /\ broadcasts' = [broadcasts EXCEPT ![k] =
          [event |-> b.event, idx |-> r.idx, at |-> r.at, st |-> r.st, owed |-> b.owed]]
     /\ received' = Deliver(b.event, r.sent)
     /\ waiting' = IF r.st = "sending" THEN Append(rest, k) ELSE rest
     /\ UNCHANGED <<bridgeFrame, active_connections, sock, published, attached>>

\* websocket_endpoint line 108 and connect lines 25-27
Connect(c) ==
  /\ loop_set
  /\ sock[c] = "new"
  /\ \A i, j \in 1..Len(ConsumerNames) :
       i < j /\ ConsumerNames[j] = c => sock[ConsumerNames[i]] # "new"
  /\ sock' = [sock EXCEPT ![c] = "open"]
  /\ active_connections' = Append(active_connections, c)
  /\ UNCHANGED <<bridgeFrame, broadcasts, waiting, published, received, attached>>

\* the client reads slowly: the websocket cannot take more data
Stall(c) ==
  /\ sock[c] = "open"
  /\ sock' = [sock EXCEPT ![c] = "stalled"]
  /\ UNCHANGED <<bridgeFrame, active_connections, broadcasts, waiting, published, received,
                 attached>>

\* the client has caught up
Drain(c) ==
  /\ sock[c] = "stalled"
  /\ sock' = [sock EXCEPT ![c] = "open"]
  /\ UNCHANGED <<bridgeFrame, active_connections, broadcasts, waiting, published, received,
                 attached>>

\* the client goes away; the websocket stays in the list until its handler
\* sees the disconnect
PeerClose(c) ==
  /\ sock[c] \in {"open", "stalled"}
  /\ sock' = [sock EXCEPT ![c] = "closed"]
  /\ broadcasts' = [k \in 1..Len(broadcasts) |->
                      [broadcasts[k] EXCEPT !.owed = broadcasts[k].owed \ {c}]]
  /\ UNCHANGED <<bridgeFrame, active_connections, waiting, published, received, attached>>

\* websocket_endpoint lines 158-159 and disconnect lines 29-31
Disconnect(c) ==
  /\ sock[c] = "closed"
  /\ sock' = [sock EXCEPT ![c] = "gone"]
  /\ active_connections' = SelectSeq(active_connections, LAMBDA d : d # c)
  /\ UNCHANGED <<bridgeFrame, broadcasts, waiting, published, received, attached>>

BridgeInit == Init /\ mode = "api" /\ wake_word = ""

BridgeNext ==
  \/ LifespanStartup
  \/ Publish
  \/ \E k \in 1..MaxEvents : StartBroadcast(k)
  \/ \E k \in 1..MaxEvents : ResumeBroadcast(k)
  \/ \E c \in Consumers : Connect(c)
  \/ \E c \in Consumers : Stall(c)
  \/ \E c \in Consumers : Drain(c)
  \/ \E c \in Consumers : PeerClose(c)
  \/ \E c \in Consumers : Disconnect(c)

\* the bridge on its own: the orchestrator is seen only through the events
\* it publishes
BridgeSpec == BridgeInit /\ [][BridgeNext]_vars

Next ==
  \/ \E active \in BOOLEAN : AudioCallback(active)
  \/ \E active \in BOOLEAN : FrameLost(active)
  \/ \E raw \in Transcripts, stt_ok \in BOOLEAN : Transcribe(raw, stt_ok)
  \/ \E tts_ok \in BOOLEAN : ExitCommand(tts_ok)
  \/ WakeGate
  \/ ParseIntent
  \/ \E ctx \in MemoryContexts, raises \in BOOLEAN : RetrieveMemory(ctx, raises)
  \/ \E tool_ok \in BOOLEAN : ExecuteTool(tool_ok)
  \/ \E response \in Responses, raises \in BOOLEAN : Generate(response, raises)
  \/ \E raises \in BOOLEAN : Persist(raises)
  \/ \E tts_ok \in BOOLEAN : Speak(tts_ok)
  \/ \E tts_ok, aborts \in BOOLEAN : HandleError(tts_ok, aborts)
  \/ \E tts_ok \in BOOLEAN : RunContinuous(tts_ok)
  \/ LoopExit
  \/ Signal
  \/ LifespanStartup
  \/ WsShutdown
  \/ LifespanShutdown
  \/ ShutdownBegin
  \/ StreamStopped
  \/ \E tts_ok \in BOOLEAN : ShutdownFinish(tts_ok)
  \/ \E at \in {"save", "goodbye"}, tts_ok \in BOOLEAN : SignalInShutdown(at, tts_ok)

Spec == Init /\ [][Next]_vars

(***************************************************************************)
(* core/audio_input.py listen_once: AudioInput driven by a caller that     *)
(* listens for one utterance at a time (run_interactive, main.py line     *)
(* 284).  The callback given to start() is listen_once's closure.          *)
(***************************************************************************)
\* listen_once lines 196-204 and start(): a new Event, the closure, a new
\* stream; elapsed is the time that passed since the previous call returned
ListenStart(elapsed) ==
  /\ mode = "interactive"
  /\ main_pc = "init"
  /\ listens < MaxListens
  /\ listens' = listens + 1
  /\ speech_event' = FALSE
  /\ speech_data' = <<>>
  /\ now' = now + elapsed
  /\ StartAudio
  /\ restart_at' = Len(delivered)
  /\ main_pc' = "waiting"
  /\ UNCHANGED <<configVars, overflow, jarvisVars, modelVars, cb_pc, turn, calls, warnings,
                 histVars, loop_set, bridgeVars, libVars, shutdown_effects>>

\* the closure, lines 199-202, called by _audio_callback with the segment;
\* _audio_callback then clears the speech buffer
ListenCallback ==
  /\ mode = "interactive"
  /\ cb_pc = "process_audio"
  /\ speech_data' = turn.audio
  /\ speech_event' = TRUE
  /\ ReturnToCallback
  /\ UNCHANGED <<configVars, deviceVars, jarvisVars, modelVars, turn, main_pc, calls,
                 warnings, histVars, loop_set, bridgeVars, libVars, shutdown_effects,
                 listens, restart_at>>

\* AudioInput.stop, lines 170-183, as listen_once calls it
StopAudio ==
  /\ is_listening' = FALSE
  /\ stream_active' = FALSE
  /\ UNCHANGED <<buffer, is_speaking, last_speech_time, speech_buffer>>

\* listen_once lines 207-215: the wait timed out, stop(), None is returned
ListenTimeout ==
  /\ main_pc = "waiting"
  /\ cb_pc = "idle"
  /\ ~speech_event
  /\ StopAudio
  /\ main_pc' = "init"
  /\ UNCHANGED <<configVars, now, overflow, jarvisVars, modelVars, cb_pc, turn, calls,
                 warnings, histVars, loop_set, bridgeVars, libVars, shutdown_effects,
                 listenVars>>

\* listen_once lines 207-212: the event was set, stop(), the segment is
\* returned
ListenHeard ==
  /\ main_pc = "waiting"
  /\ cb_pc = "idle"
  /\ speech_event
  /\ StopAudio
  /\ main_pc' = "init"
  /\ UNCHANGED <<configVars, now, overflow, jarvisVars, modelVars, cb_pc, turn, calls,
                 warnings, histVars, loop_set, bridgeVars, libVars, shutdown_effects,
                 listenVars>>

ListenInit == mode = "interactive" /\ wake_word = "" /\ DefaultConfig /\ Constructed

ListenNext ==
  \/ \E elapsed \in 0..1 : ListenStart(elapsed)
  \/ \E active \in BOOLEAN : AudioCallback(active)
  \/ ListenCallback
  \/ ListenTimeout
  \/ ListenHeard

ListenSpec == ListenInit /\ [][ListenNext]_vars

(***************************************************************************)
(* The components called through their own interfaces: each specification *)
(* below constructs one component and applies its operations to inputs     *)
(* drawn from the sets given.                                              *)
(***************************************************************************)
componentFrame == <<configVars, deviceVars, audioVars, jarvisVars, modelVars, cb_pc, turn,
                    main_pc, calls, warnings, histVars, loop_set, bridgeVars, listenVars,
                    shutdown_effects>>

\* the policies a SecurityValidator is constructed with
Policies ==
  { DefaultPolicy(m) : m \in 1..MaxResponseLength }
    \cup { PermissivePolicy(m) : m \in 1..MaxResponseLength }

\* tool names handed to validate_action: the registered ones and names that
\* meet the keyword lists in one or several places
SecurityToolNames ==
  RegisteredTools \cup
    {"DeleteFileTool", "UninstallTool", "GetRegistryInfoTool", "InstallTool", "OpenUrlTool",
     "SubmitFormTool", "ShutdownTool", "PlayMusicTool"}

\* the params handed to validate_action; <<>> is the empty dict
SecurityParams ==
  {<<>>, [url |-> "https://github.com/x"], [url |-> "javascript:alert(1)"],
   [form |-> "login"]}

\* the responses handed to validate_response_length
ResponseTexts == {"", "ok", "hello", "hello world"}

\* one call of validate_action
ValidateActionCall(tool_name, params, user_confirmed) ==
  LET r == ValidateAction(policy, tool_name, params, user_confirmed)
  IN /\ returned' = [op |-> "validate_action", tool_name |-> tool_name,
                      user_confirmed |-> user_confirmed, allowed |-> r.allowed,
                      reason |-> r.reason]
     /\ UNCHANGED <<componentFrame, tools, policy, max_history, messages, max_memories,
                    metadata>>

\* one call of validate_response_length
ValidateResponseLengthCall(response) ==
  LET r == ValidateResponseLength(policy, response)
  IN /\ returned' = [op |-> "validate_response_length", response |-> response,
                      valid |-> r.valid, text |-> r.text]
     /\ UNCHANGED <<componentFrame, tools, policy, max_history, messages, max_memories,
                    metadata>>

SecurityInit ==
  /\ mode = "continuous"
  /\ wake_word = ""
  /\ policy \in Policies
  /\ max_history = MaxHistory
  /\ max_memories = MaxMemories
  /\ Constructed

SecurityNext ==
  \/ \E tool_name \in SecurityToolNames, params \in SecurityParams,
         user_confirmed \in BOOLEAN : ValidateActionCall(tool_name, params, user_confirmed)
  \/ \E response \in ResponseTexts : ValidateResponseLengthCall(response)

SecuritySpec == SecurityInit /\ [][SecurityNext]_vars

(***************************************************************************)
(* core/conversation.py ConversationManager and memory/semantic_memory.py  *)
(* SemanticMemory behind memory/memory_manager.py MemoryManager.  A        *)
(* message is its role and its number in the order of the add_message      *)
(* calls (standing for the content); a metadata entry keeps the category and the deleted mark of the memory    *)
(* (text, timestamp and access_count decide nothing here).  Memory indices *)
(* count from 0, as in the source.                                         *)
(***************************************************************************)
\* the Python slice s[k:]: a negative k counts from the end, and -0 is 0
SliceFrom(s, k) ==
  LET start == IF k < 0 THEN (IF Len(s) + k < 0 THEN 0 ELSE Len(s) + k)
                        ELSE (IF k > Len(s) THEN Len(s) ELSE k)
  IN SubSeq(s, start + 1, Len(s))

\* _trim_history, lines 82-90
TrimHistory(msgs, mh) == SliceFrom(msgs, 0 - mh * 2)

\* add_message, lines 59-80
MessageRoles == {"user", "assistant"}

AddMessage(role) ==
  LET n == IF messages = <<>> THEN 1 ELSE messages[Len(messages)].n + 1
      message == [role |-> role, n |-> n]
      appended == Append(messages, message)
  IN /\ n <= MaxMessages
     /\ messages' = IF Len(appended) > max_history * 2
                       THEN TrimHistory(appended, max_history) ELSE appended
     /\ returned' = [op |-> "add_message", message |-> message]
     /\ UNCHANGED <<componentFrame, tools, policy, max_history, max_memories, metadata>>

MemoryCategories == {"general", "conversation"}

\* the top_k (max_memories for get_context) the callers ask for
TopKs == 1..2

\* MemoryManager.remember, lines 43-71, and remember_conversation, lines
\* 146-168 (category "conversation"), through SemanticMemory.add, lines
\* 117-162
Remember(category) ==
  /\ Len(metadata) <= MaxMemories
  /\ metadata' = Append(metadata, [category |-> category, deleted |-> FALSE])
  /\ returned' = [op |-> "remember", idx |-> Len(metadata)]
  /\ UNCHANGED <<componentFrame, tools, policy, max_history, messages, max_memories>>

\* delete_by_index, lines 232-246
DeleteByIndex(idx) ==
  /\ IF 0 <= idx /\ idx < Len(metadata)
       THEN /\ metadata' = [metadata EXCEPT ![idx + 1].deleted = TRUE]
            /\ returned' = [op |-> "delete_by_index", ok |-> TRUE]
       ELSE /\ returned' = [op |-> "delete_by_index", ok |-> FALSE]
            /\ UNCHANGED metadata
  /\ UNCHANGED <<componentFrame, tools, policy, max_history, messages, max_memories>>

\* what index.search may return for k neighbours: k different indices, in
\* the order of their distance to the query
Rankings(k) ==
  { r \in [1..k -> 0..(Len(metadata) - 1)] : \A i, j \in 1..k : i # j => r[i] # r[j] }

\* the k of search, line 196
Neighbours(top_k) == IF top_k * 2 < Len(metadata) THEN top_k * 2 ELSE Len(metadata)

\* search lines 199-222: the loop over the neighbours, with the category
\* filter, cut at top_k results
SearchResults(ranking, top_k, category_filter) ==
  LET passing == SelectSeq(ranking, LAMBDA idx :
                   category_filter = "" \/ metadata[idx + 1].category = category_filter)
  IN IF Len(passing) > top_k THEN SubSeq(passing, 1, top_k) ELSE passing

\* SemanticMemory.search, lines 164-224; "" stands for no category filter
Search(ranking, top_k, category_filter) ==
  /\ ranking \in Rankings(Neighbours(top_k))
  /\ returned' = [op |-> "search",
                   results |-> SearchResults(ranking, top_k, category_filter)]
  /\ UNCHANGED <<componentFrame, tools, policy, max_history, messages, max_memories,
                 metadata>>

\* MemoryManager.recall, lines 73-111: search, then the results at least
\* min_similarity close; the results come nearest first, so those kept are
\* the first `similar` of them
Recall(ranking, top_k, category, similar) ==
  LET results == SearchResults(ranking, top_k, category)
  IN /\ ranking \in Rankings(Neighbours(top_k))
     /\ similar <= Len(results)
     /\ returned' = [op |-> "recall", results |-> SubSeq(results, 1, similar)]
     /\ UNCHANGED <<componentFrame, tools, policy, max_history, messages, max_memories,
                    metadata>>

\* MemoryManager.get_context, lines 113-144: the recalled memories, in
\* order, as numbered lines; <<>> stands for the empty string
GetContext(ranking, max_mem, category, similar) ==
  LET results == SearchResults(ranking, max_mem, category)
  IN /\ ranking \in Rankings(Neighbours(max_mem))
     /\ similar <= Len(results)
     /\ returned' = [op |-> "get_context", results |-> SubSeq(results, 1, similar)]
     /\ UNCHANGED <<componentFrame, tools, policy, max_history, messages, max_memories,
                    metadata>>

\* SemanticMemory.get_stats, lines 248-265
GetStats ==
  /\ returned' =
       IF metadata = <<>>
         THEN [op |-> "get_stats", total |-> 0, active |-> 0]
         ELSE [op |-> "get_stats", total |-> Len(metadata),
               active |-> Cardinality({ i \in 1..Len(metadata) : ~metadata[i].deleted })]
  /\ UNCHANGED <<componentFrame, tools, policy, max_history, messages, max_memories,
                 metadata>>

ConversationInit ==
  /\ mode = "continuous"
  /\ wake_word = ""
  /\ policy = DefaultPolicy(MaxResponseLength)
  /\ max_history \in 0..MaxHistory
  /\ max_memories = MaxMemories
  /\ Constructed

ConversationNext == \E role \in MessageRoles : AddMessage(role)

ConversationSpec == ConversationInit /\ [][ConversationNext]_vars

MemoryInit ==
  /\ mode = "continuous"
  /\ wake_word = ""
  /\ policy = DefaultPolicy(MaxResponseLength)
  /\ max_history = MaxHistory
  /\ max_memories \in 1..MaxMemories
  /\ Constructed

MemoryNext ==
  \/ \E category \in MemoryCategories : Remember(category)
  \/ \E idx \in 0..MaxMemories : DeleteByIndex(idx)
  \/ \E top_k \in TopKs, category_filter \in MemoryCategories \cup {""} :
       \E ranking \in Rankings(Neighbours(top_k)) :
         Search(ranking, top_k, category_filter)
  \/ \E top_k \in TopKs, category \in MemoryCategories \cup {""} :
       \E ranking \in Rankings(Neighbours(top_k)), similar \in 0..top_k :
         Recall(ranking, top_k, category, similar)
  \/ \E max_mem \in TopKs, category \in MemoryCategories \cup {""} :
       \E ranking \in Rankings(Neighbours(max_mem)), similar \in 0..max_mem :
         GetContext(ranking, max_mem, category, similar)
  \/ GetStats

MemorySpec == MemoryInit /\ [][MemoryNext]_vars

(***************************************************************************)
(* tools/registry.py ToolRegistry: register, unregister and execute.       *)
(***************************************************************************)
\* the names register, unregister and execute are called with: the tools of
\* initialize and one that initialize does not register
RegistryToolNames == RegisteredTools \cup {"OpenAppTool"}

\* the keyword arguments execute is called with; <<>> is none
RegistryParams == {<<>>, [expression |-> "1+1"], [information |-> "x"], [query |-> "x"]}

\* what the tool's own execute does when it is called
ToolOutcomes == {"success", "failure", "raises"}

\* mutant: no except clause, the tool's exception leaves execute
TryExecute_NoExcept(outcome) ==
  [success |-> outcome = "success", raised |-> outcome = "raises"]

\* execute lines 107-122: the try block around tool.execute; an exception
\* becomes a failure result
TryExecute(outcome) == [success |-> outcome = "success", raised |-> FALSE]

\* register, lines 22-35
Register(tool_name) ==
  /\ tools' = tools \cup {tool_name}
  /\ returned' = [op |-> "register"]
  /\ UNCHANGED <<componentFrame, policy, max_history, messages, max_memories, metadata>>

\* unregister, lines 37-53
Unregister(tool_name) ==
  /\ tools' = tools \ {tool_name}
  /\ returned' = [op |-> "unregister", ok |-> tool_name \in tools]
  /\ UNCHANGED <<componentFrame, policy, max_history, messages, max_memories, metadata>>

\* one call of execute, lines 75-122
RegistryCall(tool_name, params, outcome) ==
  LET try == TryExecute(outcome)
      r == RegistryExecute(tool_name, params, try.success)
  IN /\ returned' = [op |-> "execute", tool_name |-> tool_name, params |-> params,
                      outcome |-> outcome, ran |-> r.ran, success |-> r.success,
                      raised |-> r.ran /\ try.raised]
     /\ UNCHANGED <<componentFrame, tools, policy, max_history, messages, max_memories,
                    metadata>>

RegistryInit ==
  /\ mode = "continuous"
  /\ wake_word = ""
  /\ DefaultConfig
  /\ Constructed

RegistryNext ==
  \/ \E tool_name \in RegistryToolNames : Register(tool_name)
  \/ \E tool_name \in RegistryToolNames : Unregister(tool_name)
  \/ \E tool_name \in RegistryToolNames, params \in RegistryParams,
         outcome \in ToolOutcomes : RegistryCall(tool_name, params, outcome)

RegistrySpec == RegistryInit /\ [][RegistryNext]_vars

(***************************************************************************)
(* Properties.                                                             *)
(***************************************************************************)
Max(a, b) == IF a >= b THEN a ELSE b

Ops == { calls[i].op : i \in DOMAIN calls }

\* the stages that follow the session gate
PipelineOps == {"add_message", "parse", "get_context", "execute", "generate", "remember"}

\* the texts handed to the stages after the gate, in the current turn
DownstreamTexts ==
  { calls[i].arg : i \in { j \in DOMAIN calls :
      \/ calls[j].op \in {"parse", "get_context", "generate", "remember"}
      \/ (calls[j].op = "add_message" /\ calls[j].extra = "user") } }

Spoken == { calls[i].arg : i \in { j \in DOMAIN calls : calls[j].op = "speak" } }

\* C1: a speech burst that begins while a turn is running is dropped, with
\* a log entry: no segment cut from such a burst is ever given a turn, and
\* once the run has ended, speech frames were lost to a running turn only if
\* a warning was logged.
C1_OverlappingBurstDropped ==
  /\ cb_pc # "idle" => ~turn.overlap
  /\ (main_pc = "done" /\ dropped_speech) => warnings > 0

\* C2: the audio callback never blocks on turn processing: no stage of
\* process_audio runs in the callback context, and no frame the device
\* offers is lost because a turn is running.
C2_CallbackNeverRunsTurn == cb_pc = "idle" /\ lost = 0

\* index in delivered of the last active frame (0 when there is none)
LastActive == Max(0, CHOOSE i \in 0..Len(delivered) :
                       /\ i > 0 => delivered[i].active
                       /\ \A j \in (i + 1)..Len(delivered) : ~delivered[j].active)

\* C3: a run of active frames followed by silence longer than the silence
\* duration yields exactly one segment, and it holds the pre-roll frames and
\* every frame from the first through the last active frame, in arrival
\* order.
C3_OneSegmentPerUtterance ==
  /\ segments = IF is_speaking THEN utterances - 1 ELSE utterances
  /\ is_speaking => now - last_speech_time <= SilenceTicks
  /\ cb_pc = "process_audio" =>
       LET first == Max(1, speech_start - PreRollFrames + 1)
       IN /\ delivered[speech_start].active
          /\ LastActive >= speech_start
          /\ SubSeq(delivered, first, LastActive)
               = SubSeq(turn.audio, 1, LastActive - first + 1)
          /\ Len(turn.audio) = Len(delivered) - first + 1

\* C3 witness: a segment of a silent pre-roll frame, two active frames and the
\* closing silence has just been emitted
C3_Witness ==
  /\ cb_pc = "process_audio"
  /\ Len(turn.audio) >= 4
  /\ ~turn.audio[1].active /\ turn.audio[2].active /\ turn.audio[3].active
  /\ ~turn.audio[Len(turn.audio)].active

\* the turn began Armed with the transcript "hey jarvis what time is it"
HeyJarvisTurn ==
  wake_word = "jarvis" /\ turn.armed /\ turn.transcript = "hey jarvis what time is it"

\* C4 as stated: Armed, "hey jarvis what time is it" passes "what time is it"
\* downstream.
C4_DownstreamWhatTimeIsIt == HeyJarvisTurn => DownstreamTexts \subseteq {"what time is it"}

\* C4 amended: Armed, "hey jarvis what time is it" moves the session to
\* ActiveTurn, and the text every downstream stage gets is the transcript
\* with the wake word alone removed: "hey  what time is it".
C4_DownstreamWakeWordRemoved ==
  (HeyJarvisTurn /\ cb_pc \notin {"process_audio", "gate"}) =>
     /\ awaiting_command
     /\ turn.user_text = "hey  what time is it"
     /\ "add_message" \in Ops
     /\ DownstreamTexts \subseteq {"hey  what time is it"}

\* C4 witness: such a turn has reached generation
C4_Witness == HeyJarvisTurn /\ "generate" \in Ops /\ cb_pc = "persist"

\* the turn began Armed with a transcript that has no whole-word wake word
\* and no exit phrase
NoWakeWordTurn ==
  wake_word = "jarvis" /\ turn.armed /\ turn.transcript \in {"just talking", "my jarvises talk"}

\* C5: Armed, a transcript without the wake word as a whole word (and
\* without the exit phrase) leaves the session Armed and runs no stage
\* after transcription.
C5_NoWakeWordNoStage ==
  NoWakeWordTurn =>
     /\ ~awaiting_command
     /\ cb_pc \in {"gate", "idle"}
     /\ Ops \subseteq {"transcribe", "event"}
     /\ Spoken = {}

\* C5 witness: the gate has turned away "my jarvises talk"
C5_Witness == NoWakeWordTurn /\ turn.transcript = "my jarvises talk" /\ cb_pc = "idle"

\* the turn began in ActiveTurn with the transcript "okay shut up"
ExitTurn == ~turn.armed /\ turn.transcript = "okay shut up"

\* C6: in ActiveTurn the exit phrase makes the turn speak a farewell and
\* move the session to ShuttingDown, with no history append, intent parse,
\* tool call, generation or persistence.
C6_ExitPhraseEndsSession ==
  (ExitTurn /\ cb_pc # "gate") =>
     /\ cb_pc = "idle"
     /\ ~is_running
     /\ Spoken = {"Okay, shutting down."}
     /\ Ops \cap PipelineOps = {}

\* the calls of the current turn that ran a tool
ToolRuns == { i \in DOMAIN calls : calls[i].op = "execute" /\ calls[i].extra.ran }

\* C7: a tool classified high-risk is never executed without confirmation
\* (process_audio has none to give), and the generation context of such a
\* turn carries no tool result.
C7_HighRiskNeverExecutes ==
  /\ \A i \in ToolRuns : ClassifyTool(calls[i].arg, "") # "high_risk"
  /\ \A i \in DOMAIN calls :
       (calls[i].op = "generate"
          /\ ClassifyTool(turn.intent_result.tool, "") = "high_risk")
         => calls[i].extra \in {<<>>, <<"memory">>}

\* C8: every tool execution is preceded, in the same turn, by a validation
\* of the same tool by the security gate.
C8_ExecutionAfterValidation ==
  \A i \in DOMAIN calls :
    calls[i].op = "execute" =>
      \E j \in 1..(i - 1) : calls[j].op = "validate" /\ calls[j].arg = calls[i].arg

\* C9: once the session is ShuttingDown no later segment gets a turn that
\* reaches the history, a tool, generation or persistence.
C9_ShuttingDownIsTerminal == turn.shutting_down => Ops \cap PipelineOps = {}

\* C10: once awaiting_command is true it stays true.
C10_NeverRearms == [][awaiting_command => awaiting_command']_vars

\* C10 witness: with a wake word configured, a second turn went through the
\* pipeline on a transcript that has no wake word
C10_Witness ==
  /\ wake_word = "jarvis"
  /\ segments = 2
  /\ awaiting_command
  /\ ~turn.armed
  /\ turn.transcript = "just talking"
  /\ cb_pc = "idle"
  /\ "remember" \in Ops

\* the latest turn is over (process_audio has returned or was left by an
\* exception)
TurnOver == cb_pc = "idle" /\ "transcribe" \in Ops

\* the events of the current turn, in order
TurnEvents == SelectSeq(calls, LAMBDA c : c.op = "event")

HasEvent(type, data) ==
  \E i \in DOMAIN calls : calls[i].op = "event" /\ calls[i].arg = type /\ calls[i].extra = data

UserAppends ==
  { calls[i].arg : i \in { j \in DOMAIN calls :
      calls[j].op = "add_message" /\ calls[j].extra = "user" } }

\* the turn ran without a wake word configured, on a non-empty transcript
\* without the exit phrase, and is over
NoGateTurn ==
  /\ wake_word = ""
  /\ TurnOver
  /\ turn.transcript # ""
  /\ ~Contains(ToLower(turn.transcript), "shut up")

C12_TransitionEmitsEvent ==
  (OnUpdateSet /\ TurnOver) =>
     /\ (turn.armed /\ awaiting_command) => HasEvent("state", TRUE)
     /\ ("Okay, shutting down." \in Spoken /\ ~is_running) =>
          \E i \in DOMAIN TurnEvents :
            i > 2 /\ TurnEvents[i].arg \in {"status", "state"}

\* C13: a turn that emitted the status event "processing" has emitted the
\* status event "idle" by the time it ends.
C13_ProcessingThenIdle ==
  (TurnOver /\ HasEvent("status", "processing")) => HasEvent("status", "idle")

\* the stages of a turn as they were called, without the events
StageOps ==
  LET st == SelectSeq(calls, LAMBDA c : c.op \in {"transcribe", "execute", "generate",
                                                   "remember", "speak"})
  IN [i \in DOMAIN st |-> st[i].op]

\* a turn on "what's the time" whose tool succeeded and whose response was
\* spoken is over
TimeTurnDone ==
  /\ TurnOver
  /\ turn.transcript = "what's the time"
  /\ turn.tool_result.success
  /\ turn.response \in Spoken

C15_FailureBecomesApology ==
  (cb_pc = "idle" /\ turn.failed \in {"memory", "generate", "persist", "speak"}) =>
     (Apology \in Spoken /\ ~turn.escaped)

\* C16: a failure of transcription ends the turn with no apology, spoken or
\* attempted, and no further stage.
C16_TranscriptionFailureIsSilent ==
  turn.failed = "transcribe" =>
     /\ cb_pc \in {"error", "idle"}
     /\ Ops \cap {"speak", "speak_raised"} = {}

\* a call of process_audio got an empty or whitespace-only text from
\* stt.transcribe in this step
EmptyTranscribed ==
  cb_pc = "process_audio" /\ calls' # calls /\ turn'.failed = "" /\ turn'.raw \in {"", " "}

WakeOnlyTurn == wake_word = "jarvis" /\ turn.armed /\ turn.transcript = "Jarvis"

\* C18: Armed, a transcript that is only the wake word moves the session to
\* ActiveTurn and ends the turn: no history append, intent parse, memory
\* retrieval, tool call, generation, persistence or synthesis.
C18_WakeWordOnlyEndsTurn ==
  (WakeOnlyTurn /\ cb_pc # "gate") =>
     /\ awaiting_command
     /\ cb_pc = "idle"
     /\ turn.user_text = ""
     /\ Ops \cap (PipelineOps \cup {"speak", "speak_raised"}) = {}

\* C18 witness: the wake word alone has opened the session
C18_Witness == WakeOnlyTurn /\ TurnOver /\ awaiting_command /\ is_running

\* the texts a turn can hand to the parser
ParsedTexts ==
  { Strip(t) : t \in Transcripts } \cup { Strip(WordSub(Strip(t), "jarvis")) : t \in Transcripts }

\* for each of them, the rules that match the lower-cased, stripped text
Matching ==
  [ text \in ParsedTexts |->
      { k \in DOMAIN IntentRules : RuleMatches(k, Strip(ToLower(text))) } ]

\* C19: parse returns the intent and tool of the first rule, in declaration
\* order, that matches the lower-cased text, and the conversation intent
\* with no tool when no rule matches; "save this recall" matches the
\* memory-store rule and the memory-recall rule and gets the memory-store
\* intent.
C19_FirstMatchWins ==
  "parse" \in Ops =>
     LET r == turn.intent_result
         hits == Matching[turn.user_text]
     IN /\ hits = {} => (r.intent = "conversation" /\ r.tool = NoTool /\ ~ShouldUseTool(r))
        /\ hits # {} =>
             LET k == CHOOSE j \in hits : \A i \in hits : j <= i
             IN r.intent = IntentRules[k].intent /\ r.tool = IntentRules[k].tool
        /\ turn.user_text = "save this recall" =>
             (hits = {4, 5} /\ r.intent = "memory_store" /\ r.tool = "RememberTool")

\* C19 witness: "save this recall" has been parsed
C19_Witness ==
  "parse" \in Ops /\ turn.user_text = "save this recall" /\ cb_pc = "memory"

\* the utterance length a segment is cut at
MaxUtteranceFrames == 4

\* the active frames at the end of the speech buffer: the uninterrupted run
\* of speech in progress
ActiveRun ==
  LET n == Len(speech_buffer)
      quiet == { i \in 1..n : ~speech_buffer[i].active }
  IN n - Max(0, CHOOSE i \in quiet \cup {0} : \A j \in quiet : j <= i)

\* C20: during an uninterrupted run of active frames a segment is cut once
\* the maximum utterance length is reached, so the speech buffer never holds
\* a longer run of active frames.
C20_SpeechBufferBounded == ActiveRun <= MaxUtteranceFrames

(***************************************************************************)
(* Properties of the bridge (BridgeSpec).                                  *)
(***************************************************************************)
\* the events published so far
Published == 1..published

\* the event was published while no websocket was in the list
NoConsumerAt(e) == attached[e] = {}

Got(c, e) == \E i \in 1..Len(received[c]) : received[c][i] = e

\* C22: an event published while no websocket was connected is dropped: no
\* websocket, whenever it connects, is ever sent it
C22_NoConsumerEventDropped ==
  \A e \in Published : NoConsumerAt(e) => \A c \in Consumers : ~Got(c, e)

\* C23: every websocket is sent the events in the order they were published
\* (events are numbered in that order)
C23_FifoPerConsumer ==
  \A c \in Consumers :
    \A i, j \in 1..Len(received[c]) : i < j => received[c][i] < received[c][j]

\* C24: no websocket is sent an event twice, and a broadcast that has ended
\* has sent its event to every websocket that was connected when it began
\* and whose peer is still there, whatever the other websockets did meanwhile
C24_OnceAndOthersServed ==
  /\ \A c \in Consumers :
       \A i, j \in 1..Len(received[c]) : i # j => received[c][i] # received[c][j]
  /\ \A k \in 1..Len(broadcasts) :
       broadcasts[k].st = "done" =>
         \A c \in broadcasts[k].owed : Got(c, broadcasts[k].event)

(***************************************************************************)
(* Properties of shutdown (Spec).                                          *)
(***************************************************************************)
\* shutdown() has begun: the run was started and has left the serving loop
ShutdownBegun ==
  \/ main_pc \in {"stopping", "saving"}
  \/ main_pc = "done" /\ ~is_running

\* shutdown() is past audio_input.stop()
AudioStopReturned ==
  \/ main_pc = "saving"
  \/ main_pc = "done" /\ ~is_running

C26_ShutdownCompletes ==
  (main_pc = "done" /\ ~is_running) => shutdown_complete

\* a step of api/server.py's lifespan or websocket handler
ServerStep ==
  /\ mode = "api"
  /\ main_pc \in {"init", "serving", "exiting"}
  /\ main_pc' # main_pc

\* C27: is_running and awaiting_command are written only by the
\* orchestrator (process_audio, run_continuous, shutdown): no step of the
\* API server's lifespan or websocket handler changes them
C27_OnlyOrchestratorWrites ==
  [][(is_running' # is_running \/ awaiting_command' # awaiting_command) => ~ServerStep]_vars

\* the turn began Armed, on a transcript with the exit phrase and without
\* the wake word
ArmedExitTurn == turn.armed /\ turn.transcript = "okay shut up"

\* C28: such a turn never reaches the wake-word gate: it speaks the farewell
\* and moves the session to ShuttingDown, and the session stays Armed
C28_ExitBeforeGate ==
  (ArmedExitTurn /\ cb_pc # "gate") =>
     /\ cb_pc = "idle"
     /\ ShuttingDown
     /\ Spoken = {"Okay, shutting down."}
     /\ ~awaiting_command
     /\ "add_message" \notin Ops

\* a turn whose response was spoken is over, where events are delivered
SpokenTurnDone == TurnOver /\ OnUpdateSet /\ turn.response # "" /\ turn.response \in Spoken

\* call i of the current turn is op with argument arg
IsCall(i, op, arg) == calls[i].op = op /\ calls[i].arg = arg

\* C29: in a successful turn the transcription event follows transcription,
\* and persistence, the response event and synthesis come in this order
C29_ResponseEventBeforePlayback ==
  SpokenTurnDone =>
     /\ \E i, j \in DOMAIN calls :
          i < j /\ calls[i].op = "transcribe" /\ IsCall(j, "event", "transcription")
     /\ \E i, j, k \in DOMAIN calls :
          /\ i < j /\ j < k
          /\ IsCall(i, "remember", turn.user_text)
          /\ calls[j] = Event("response", turn.response)
          /\ IsCall(k, "speak", turn.response)

(***************************************************************************)
(* Properties of the tool stage (Spec).                                    *)
(***************************************************************************)
\* the context of generate call i holds a tool result
HasToolResult(i) == \E j \in DOMAIN calls[i].extra : calls[i].extra[j] = "tool_result"

\* a tool was executed before call i and reported success
ToolSucceededBefore(i) ==
  \E j \in 1..(i - 1) : calls[j].op = "execute" /\ calls[j].extra.ran /\ calls[j].extra.success

\* the registry returned a failure result before call i
ToolFailedBefore(i) ==
  \E j \in 1..(i - 1) : calls[j].op = "execute" /\ ~calls[j].extra.success

\* C30: the context given to generation holds a tool result exactly when a
\* tool ran in this turn and reported success; after a failure result (tool
\* not registered, parameters rejected, or the tool failing) the turn goes on
\* to generation, and the context is the memory context alone, or none
C30_ToolResultIffSuccess ==
  /\ \A i \in DOMAIN calls :
       calls[i].op = "generate" =>
         /\ HasToolResult(i) <=> ToolSucceededBefore(i)
         /\ ToolFailedBefore(i) =>
              calls[i].extra = IF turn.memory_context # "" THEN <<"memory">> ELSE <<>>
  /\ (\E j \in DOMAIN calls : calls[j].op = "execute" /\ ~calls[j].extra.success) =>
       (cb_pc = "generate" \/ "generate" \in Ops)

\* a turn on "volume up", whose tool is not registered, went on to
\* generation with no context at all and spoke its response
C30_Witness ==
  /\ TurnOver
  /\ turn.transcript = "volume up"
  /\ turn.response \in Spoken
  /\ \E j \in DOMAIN calls :
       calls[j].op = "execute" /\ calls[j].arg = "VolumeUpTool" /\ ~calls[j].extra.ran
  /\ \E i \in DOMAIN calls : calls[i].op = "generate" /\ calls[i].extra = <<>>

(***************************************************************************)
(* Properties of the segmenter (Spec).                                     *)
(***************************************************************************)
Min(a, b) == IF a <= b THEN a ELSE b

\* the last n frames passed to the callback
LastDelivered(n) == SubSeq(delivered, Len(delivered) - n + 1, Len(delivered))

\* the callback has just taken the segmenter from Idle to Speaking
OnsetStep == ~is_speaking /\ is_speaking'

\* C31: at Idle -> Speaking the speech buffer becomes the most recent frames
\* of the pre-roll buffer, at most PreRollFrames of them, the last of which
\* is the active frame that started the speech, and these are the frames of
\* the frame periods that immediately precede the onset; a segment handed to
\* on_speech_detected is never empty and begins with those frames
C31_PreRollAtOnset ==
  [][/\ OnsetStep =>
          LET n == Min(PreRollFrames, Len(delivered'))
          IN /\ n >= 1
             /\ speech_buffer' = SubSeq(delivered', Len(delivered') - n + 1, Len(delivered'))
             /\ speech_buffer'[n].active
             /\ \A i \in 1..n : speech_buffer'[i].id = now' - (n - i)
     /\ cb_pc' = "process_audio" /\ cb_pc = "idle" =>
          LET n == Min(PreRollFrames, speech_start)
          IN /\ turn'.audio # <<>>
             /\ SubSeq(turn'.audio, 1, n) = SubSeq(delivered', speech_start - n + 1, speech_start)
    ]_vars

\* the frame the callback has just been given
NewChunk == delivered'[Len(delivered')]

\* C32: while Speaking, an active frame is appended and resets the silence
\* timer; a non-active frame is appended too, and the utterance goes on as
\* long as the time since the last active frame does not exceed the silence
\* duration; when it does, one segment is emitted that holds everything
\* accumulated, the gaps and this frame included
C32_GapsDoNotEndUtterance ==
  [][(is_speaking /\ Len(delivered') = Len(delivered) + 1) =>
       /\ NewChunk.active =>
            /\ is_speaking' /\ segments' = segments
            /\ last_speech_time' = now'
            /\ speech_buffer' = Append(speech_buffer, NewChunk)
       /\ (~NewChunk.active /\ now' - last_speech_time <= SilenceTicks) =>
            /\ is_speaking' /\ segments' = segments
            /\ last_speech_time' = last_speech_time
            /\ speech_buffer' = Append(speech_buffer, NewChunk)
       /\ (~NewChunk.active /\ now' - last_speech_time > SilenceTicks) =>
            /\ ~is_speaking' /\ segments' = segments + 1
            /\ cb_pc' = "process_audio"
            /\ turn'.audio = Append(speech_buffer, NewChunk)
    ]_vars

\* a segment with two active runs and the gap between them has been emitted
C32_Witness ==
  /\ cb_pc = "process_audio"
  /\ \E i, j, k \in 1..Len(turn.audio) :
       /\ i < j /\ j < k
       /\ turn.audio[i].active /\ ~turn.audio[j].active /\ turn.audio[k].active
       /\ turn.audio[j].id = turn.audio[i].id + (j - i)
(***************************************************************************)
(* Properties of listen_once (ListenSpec).                                 *)
(***************************************************************************)
\* C33: after stop() followed by start() the segmenter is Idle with an
\* empty speech buffer, and the segment a listen_once call returns holds
\* only frames delivered after that call's start()
C33_RestartIsClean ==
  /\ (main_pc = "waiting" /\ Len(delivered) = restart_at) =>
       (~is_speaking /\ speech_buffer = <<>>)
  /\ speech_event =>
       \A i \in 1..Len(speech_data) :
         \E j \in (restart_at + 1)..Len(delivered) : delivered[j] = speech_data[i]

(***************************************************************************)
(* Properties of shutdown (Spec).                                          *)
(***************************************************************************)
Times(effect) ==
  Cardinality({ i \in 1..Len(shutdown_effects) : shutdown_effects[i] = effect })

\* C34: whatever the shutdown() invocations, nested ones included, the audio
\* input is stopped at most once, memory is saved at most once and the
\* farewell is spoken at most once, and a completed shutdown has saved and
\* spoken exactly once
C34_ShutdownEffectsOnce ==
  /\ \A effect \in {"stop", "save", "goodbye"} : Times(effect) <= 1
  /\ shutdown_complete => (Times("save") = 1 /\ Times("goodbye") = 1)

(***************************************************************************)
(* Properties of the security validator (SecuritySpec).                    *)
(***************************************************************************)
HasForbiddenKeyword(tool_name) == AnyLit(ToLower(tool_name), ForbiddenKeywords)

\* C35: validate_action never allows a tool classified FORBIDDEN, whatever
\* the params, the policy and user_confirmed, and a tool name with a
\* forbidden keyword is classified FORBIDDEN whatever else it matches
C35_ForbiddenNeverAllowed ==
  returned.op = "validate_action" =>
    /\ ClassifyTool(returned.tool_name, "") = "forbidden" =>
         (~returned.allowed /\ returned.reason = "forbidden")
    /\ HasForbiddenKeyword(returned.tool_name) =>
         ClassifyTool(returned.tool_name, "") = "forbidden"

\* a confirmed call for a tool that is both forbidden ("uninstall") and
\* high-risk ("install"), under a policy that permits installs, was refused
C35_Witness ==
  /\ returned.op = "validate_action"
  /\ returned.tool_name = "UninstallTool"
  /\ returned.user_confirmed
  /\ policy.allow_software_install
  /\ ~policy.require_confirmation_for_high_risk
  /\ ~returned.allowed

EndsWith(s, lit) == Len(s) >= Len(lit) /\ LitAt(s, Len(s) - Len(lit) + 1, lit)

\* C40: validate_response_length returns a text no longer than
\* max_response_length: the response itself with flag true when it fits,
\* a truncated text ending in "..." with flag false otherwise
C40_ResponseFits ==
  returned.op = "validate_response_length" =>
    /\ Len(returned.text) <= policy.max_response_length
    /\ Len(returned.response) <= policy.max_response_length =>
         (returned.valid /\ returned.text = returned.response)
    /\ Len(returned.response) > policy.max_response_length =>
         (~returned.valid /\ EndsWith(returned.text, "..."))

(***************************************************************************)
(* Properties of the conversation history (ConversationSpec) and of the    *)
(* memory (MemorySpec).                                                    *)
(***************************************************************************)
\* C36: after any sequence of add_message calls the history holds at most
\* 2 * max_history messages, and they are the most recent ones in order
C36_HistoryBounded ==
  /\ Len(messages) <= 2 * max_history
  /\ \A i \in 1..(Len(messages) - 1) : messages[i + 1].n = messages[i].n + 1
  /\ (returned.op = "add_message" /\ messages # <<>>) =>
       messages[Len(messages)] = returned.message

Active == { i \in 1..Len(metadata) : ~metadata[i].deleted }

\* C37: the number of memories stored (deleted ones not counted) never
\* exceeds max_memories
C37_MemoriesBounded == Cardinality(Active) <= max_memories

\* C38: a deleted memory is not among the results of a later search, recall
\* or get_context, and get_stats does not count it as active
C38_DeletedNotReturned ==
  /\ returned.op \in {"search", "recall", "get_context"} =>
       \A i \in 1..Len(returned.results) : ~metadata[returned.results[i] + 1].deleted
  /\ returned.op = "get_stats" => returned.active = Cardinality(Active)

(***************************************************************************)
(* Properties of the tool registry (RegistrySpec).                         *)
(***************************************************************************)
\* what an execute call returned, against what it was called with
ExecuteResult ==
  returned.op = "execute" =>
    /\ ~returned.raised
    /\ returned.tool_name \notin tools => (~returned.ran /\ ~returned.success)
    /\ ~(RequiredParams(returned.tool_name) \subseteq DOMAIN returned.params) =>
         (~returned.ran /\ ~returned.success)
    /\ returned.outcome = "raises" => ~returned.success
    /\ returned.success => (returned.ran /\ returned.outcome = "success")

====
